---- MODULE Spec2Model ----
(***************************************************************************)
(* UpdateController: the cycle coordinator (Run, performUpdateCheck,       *)
(* applyUpdate, handleUpdateFailure), the SteamCMD update engine           *)
(* (CheckUpdate, ApplyUpdate, ValidateUpdate and their parsers) and the    *)
(* restart orchestrator (restartPods, GetPodOwner, restartWorkload,        *)
(* RestartReplicaSet).                                                     *)
(*                                                                         *)
(* Texts (files, tool output) are sequences of one-character strings, so   *)
(* that strings.Contains, strings.Split, strings.Fields and strings.Trim   *)
(* are computed as the Go library computes them.                           *)
(***************************************************************************)
EXTENDS Integers, Sequences, FiniteSets, TLC

(***************************************************************************)
(* Bounds of the model.                                                    *)
(***************************************************************************)
\* config.MaxRetries is drawn from 0..MaxRetriesBound
MaxRetriesBound == 2
\* restartPods lists at most MaxPods pods in the restart-stage specification
MaxPods == 3
\* a ReplicaSet has at most MaxReplicas replicas
MaxReplicas == 2

\* the installer writes at most MaxLines lines to each of its two streams
MaxLines == 2

(***************************************************************************)
(* strings: the Go standard-library functions the engine uses.             *)
(***************************************************************************)
Q == "\""
NL == "\n"

\* unicode.IsSpace on the characters the model uses
IsSpace(c) == c \in {" ", "\t", "\r", "\n"}

HasPrefixAt(s, pat, i) ==
    /\ i + Len(pat) - 1 <= Len(s)
    /\ \A k \in 1..Len(pat) : s[i + k - 1] = pat[k]

\* strings.Contains(s, pat)
Contains(s, pat) ==
    \E i \in 1..(Len(s) - Len(pat) + 1) : HasPrefixAt(s, pat, i)

RECURSIVE SplitFrom(_, _, _)
\* the pieces of s from position i on, one piece per step: up to the next newline
SplitFrom(s, i, acc) ==
    IF \A j \in i..Len(s) : s[j] # NL
    THEN Append(acc, SubSeq(s, i, Len(s)))
    ELSE LET n == CHOOSE j \in i..Len(s) : s[j] = NL /\ \A k \in i..(j - 1) : s[k] # NL
         IN SplitFrom(s, n + 1, Append(acc, SubSeq(s, i, n - 1)))

\* strings.Split(s, "\n"): always at least one element
SplitLines(s) == SplitFrom(s, 1, <<>>)

RECURSIVE FieldsFrom(_, _, _, _)
FieldsFrom(s, i, cur, acc) ==
    IF i > Len(s) THEN (IF cur = <<>> THEN acc ELSE Append(acc, cur))
    ELSE IF IsSpace(s[i])
         THEN FieldsFrom(s, i + 1, <<>>, IF cur = <<>> THEN acc ELSE Append(acc, cur))
         ELSE FieldsFrom(s, i + 1, Append(cur, s[i]), acc)

\* strings.Fields(s): the maximal runs of non-space characters
Fields(s) == FieldsFrom(s, 1, <<>>, <<>>)

RECURSIVE TrimLeft(_, _)
TrimLeft(s, c) ==
    IF s # <<>> /\ Head(s) = c THEN TrimLeft(Tail(s), c) ELSE s

RECURSIVE TrimRight(_, _)
TrimRight(s, c) ==
    IF s # <<>> /\ s[Len(s)] = c THEN TrimRight(SubSeq(s, 1, Len(s) - 1), c) ELSE s

\* strings.Trim(s, "\"")
Trim(s, c) == TrimRight(TrimLeft(s, c), c)

RECURSIVE JoinLines(_)
\* every line followed by a newline, as the tool prints them
JoinLines(ls) ==
    IF ls = <<>> THEN <<>> ELSE Head(ls) \o <<NL>> \o JoinLines(Tail(ls))

(***************************************************************************)
(* The literals of the source.                                             *)
(***************************************************************************)
\* "\"buildid\""
BuildIdKey == <<Q, "b", "u", "i", "l", "d", "i", "d", Q>>
\* "\"public\""
PublicKey == <<Q, "p", "u", "b", "l", "i", "c", Q>>
\* "\"}"
QuoteBrace == <<Q, "}">>
\* "branches"
BranchesWord == <<"b", "r", "a", "n", "c", "h", "e", "s">>
\* "Success"
SuccessMarker == <<"S", "u", "c", "c", "e", "s", "s">>
\* "state is 0x6"
State0x6 == <<"s", "t", "a", "t", "e", " ", "i", "s", " ", "0", "x", "6">>
\* "state is 0x606"
State0x606 == State0x6 \o <<"0", "6">>
\* "Error! App"
ErrorApp == <<"E", "r", "r", "o", "r", "!", " ", "A", "p", "p">>
\* "0x6"
Hex0x6 == <<"0", "x", "6">>
\* config.SteamAppID, default "232250"
SteamAppID == <<"2", "3", "2", "2", "5", "0">>
\* fmt.Sprintf("\"%s\"", c.steamAppID)
QuotedAppID == <<Q>> \o SteamAppID \o <<Q>>

\* the fallback scan of getLatestBuildID looks at 50 lines
ScanWindow == 50
\* the default of config.MaxRetries
DefaultMaxRetries == 3
\* config.RetryDelay, default 5 * time.Minute
RetryDelay == 5
\* the wait of RestartReplicaSet between its two writes: 2 * time.Second
GraceSeconds == 2

\* an error is the chain of its messages, outermost first; nil is the empty chain
NoErr == <<>>
\* fmt.Errorf("msg: %w", err)
Wrap(msg, err) == <<msg>> \o err

(***************************************************************************)
(* steamcmd.Client: the pure parts.                                        *)
(***************************************************************************)
\* a test that looks at the game directory only
isGameInstalledDirOnly(dir, srcds) == dir # "missing"

\* os.Stat(path) followed by os.IsNotExist(err): a path is "exists" or "missing"
isGameInstalled(dir, srcds) ==
    IF dir = "missing" THEN FALSE
    ELSE IF srcds = "missing" THEN FALSE
    ELSE TRUE

\* a reading of the line that keeps the quotes of the value
BuildIdOfLineUntrimmed(line) == Fields(line)[2]

\* the build id of a line holding the key: the second field without its quotes
BuildIdOfLine(line) == Trim(Fields(line)[2], Q)

IsBuildIdLine(line) == Contains(line, BuildIdKey) /\ Len(Fields(line)) >= 2

\* a file on disk: what os.ReadFile finds at its path
AbsentFile == [stat |-> "missing", data |-> <<>>]
UnreadableFile == [stat |-> "denied", data |-> <<>>]
FileWith(text) == [stat |-> "exists", data |-> text]

\* a reader that takes a manifest without build id for a missing one
getInstalledBuildIDLenient(file) ==
    IF file.stat = "missing" THEN [id |-> <<>>, err |-> NoErr]
    ELSE IF file.stat # "exists" THEN [id |-> <<>>, err |-> <<"failed to read manifest">>]
    ELSE LET lines == SplitLines(file.data)
             hits == {i \in 1..Len(lines) : IsBuildIdLine(lines[i])}
         IN IF hits = {}
            THEN [id |-> <<>>, err |-> NoErr]
            ELSE LET first == CHOOSE i \in hits : \A j \in hits : i <= j
                 IN [id |-> BuildIdOfLine(lines[first]), err |-> NoErr]

\* getInstalledBuildID on the manifest file (lines 221-246)
getInstalledBuildID(file) ==
    IF file.stat = "missing" THEN [id |-> <<>>, err |-> NoErr]
    ELSE IF file.stat # "exists" THEN [id |-> <<>>, err |-> <<"failed to read manifest">>]
    ELSE LET lines == SplitLines(file.data)
             hits == {i \in 1..Len(lines) : IsBuildIdLine(lines[i])}
         IN IF hits = {}
            THEN [id |-> <<>>, err |-> <<"buildid not found in manifest">>]
            ELSE LET first == CHOOSE i \in hits : \A j \in hits : i <= j
                 IN [id |-> BuildIdOfLine(lines[first]), err |-> NoErr]

\* the inner loop of getLatestBuildID: lines i .. i+49 (1-based), the first
\* build-id line outside "branches" whose id is neither empty nor "0"
AppIdScan(lines, i) ==
    LET last == IF i + ScanWindow - 1 < Len(lines) THEN i + ScanWindow - 1 ELSE Len(lines)
        hits == {j \in i..last :
                    /\ Contains(lines[j], BuildIdKey)
                    /\ ~Contains(lines[j], BranchesWord)
                    /\ Len(Fields(lines[j])) >= 2
                    /\ BuildIdOfLine(lines[j]) # <<>>
                    /\ BuildIdOfLine(lines[j]) # <<"0">>}
    IN IF hits = {} THEN [found |-> FALSE, id |-> <<>>]
       ELSE [found |-> TRUE,
             id |-> BuildIdOfLine(lines[CHOOSE j \in hits : \A k \in hits : j <= k])]

RECURSIVE ParseAppInfo(_, _, _)
\* the outer loop of getLatestBuildID from line i on
ParseAppInfo(lines, i, inPublicBranch) ==
    IF i > Len(lines) THEN [id |-> <<>>, err |-> <<"buildid not found in app_info output">>]
    ELSE IF Contains(lines[i], PublicKey) THEN ParseAppInfo(lines, i + 1, TRUE)
    ELSE IF inPublicBranch /\ Contains(lines[i], QuoteBrace) /\ ~Contains(lines[i], BuildIdKey)
         THEN ParseAppInfo(lines, i + 1, FALSE)
    ELSE IF inPublicBranch /\ IsBuildIdLine(lines[i])
         THEN [id |-> BuildIdOfLine(lines[i]), err |-> NoErr]
    ELSE IF Contains(lines[i], QuotedAppID) /\ AppIdScan(lines, i).found
         THEN [id |-> AppIdScan(lines, i).id, err |-> NoErr]
    ELSE ParseAppInfo(lines, i + 1, inPublicBranch)

\* getLatestBuildID after the tool has run: exit status and combined output
parseLatestBuildID(exit, output) ==
    IF exit # 0 THEN [id |-> <<>>, err |-> <<"failed to query app info">>]
    ELSE ParseAppInfo(SplitLines(output), 1, FALSE)

\* hasState0x6Error
hasState0x6Error(output) ==
    \/ Contains(output, State0x6)
    \/ Contains(output, State0x606)
    \/ (Contains(output, ErrorApp) /\ Contains(output, Hex0x6))

(***************************************************************************)
(* The scripts the engine writes: one directive per line.                  *)
(***************************************************************************)
\* createUpdateScript(scriptPath, validateOnly)
createUpdateScript(validateOnly) ==
    <<"@ShutdownOnFailedCommand 1", "@NoPromptForPassword 1", "force_install_dir",
      "login anonymous",
      IF validateOnly THEN "app_update validate" ELSE "app_update",
      "quit">>

\* createValidateScript(scriptPath)
createValidateScript ==
    <<"@ShutdownOnFailedCommand 1", "@NoPromptForPassword 1", "force_install_dir",
      "login anonymous", "app_update validate", "quit">>

\* a check that asks the tool to update in order to see whether there is an update
AppInfoScriptByUpdate == createUpdateScript(FALSE)

\* the script of getLatestBuildID (lines 250-257)
AppInfoScript ==
    <<"@ShutdownOnFailedCommand 1", "@NoPromptForPassword 1", "login anonymous",
      "app_info_print", "quit">>

\* a script holds a download directive
HasAppUpdate(script) ==
    \E i \in 1..Len(script) : script[i] \in {"app_update", "app_update validate"}

(***************************************************************************)
(* The environment: the installer tool and what it prints.                 *)
(***************************************************************************)
\* the builds the distribution service publishes
BuildIds == {<<"1", "0", "0", "1">>, <<"1", "0", "0", "2">>}

KeyValueLine(indent, key, value) == indent \o key \o <<"\t", "\t", Q>> \o value \o <<Q>>

\* steamapps/appmanifest_232250.acf as the tool writes it for build id
ManifestFor(id) ==
    JoinLines(<< <<Q, "A", "p", "p", "S", "t", "a", "t", "e", Q>>,
                 <<"{">>,
                 KeyValueLine(<<"\t">>, <<Q, "a", "p", "p", "i", "d", Q>>, SteamAppID),
                 KeyValueLine(<<"\t">>, BuildIdKey, id),
                 <<"}">> >>)

\* a manifest without the buildid field
MalformedManifest ==
    JoinLines(<< <<Q, "A", "p", "p", "S", "t", "a", "t", "e", Q>>,
                 <<"{">>,
                 KeyValueLine(<<"\t">>, <<Q, "a", "p", "p", "i", "d", Q>>, SteamAppID),
                 <<"}">> >>)

\* what app_info_print prints when the public branch is at build id
AppInfoFor(id) ==
    JoinLines(<< QuotedAppID,
                 <<"{">>,
                 <<"\t">> \o PublicKey,
                 <<"\t", "{">>,
                 KeyValueLine(<<"\t", "\t">>, BuildIdKey, id),
                 <<"\t", "}">>,
                 <<"}">> >>)

\* the same without the leading application-id line
AppInfoBranchOnly(id) ==
    JoinLines(<< <<"\t">> \o PublicKey,
                 <<"\t", "{">>,
                 KeyValueLine(<<"\t", "\t">>, BuildIdKey, id),
                 <<"\t", "}">> >>)

\* output without any build id (e.g. a timeout message)
AppInfoEmpty == JoinLines(<< <<"T", "i", "m", "e", "d", " ", "o", "u", "t">> >>)

\* the lines an app_update run may print, among others
ProgressLines ==
    << SuccessMarker \o <<"!">>,          \* Success!
       State0x6,                          \* state is 0x6
       State0x606,                        \* state is 0x606
       ErrorApp,                          \* Error! App
       <<"(">> \o Hex0x6 \o <<"1", ")">>  \* (0x61)
    >>

RECURSIVE PickLines(_, _)
\* the lines of ProgressLines whose index is in S, in order
PickLines(S, i) ==
    IF i > Len(ProgressLines) THEN <<>>
    ELSE (IF i \in S THEN <<ProgressLines[i]>> ELSE <<>>) \o PickLines(S, i + 1)

\* the combined outputs of an app_update run
UpdateOutputs == {JoinLines(PickLines(S, 1)) : S \in SUBSET (1..Len(ProgressLines))}

\* the white space the manifests and outputs are written with
Indents == {<<>>, <<"\t">>, <<" ", " ">>}
Separators == {<<"\t", "\t">>, <<" ">>}
LineEnds == {<<>>, <<" ">>, <<"\r">>}

\* the lines of a manifest that do not hold the build id
LinesBefore ==
    { <<>>,
      << <<Q, "A", "p", "p", "S", "t", "a", "t", "e", Q>>, <<"{">>,
         KeyValueLine(<<"\t">>, <<Q, "a", "p", "p", "i", "d", Q>>, SteamAppID),
         KeyValueLine(<<"\t">>, <<Q, "T", "a", "r", "g", "e", "t", "B", "u", "i", "l", "d", "I", "D", Q>>,
                      <<"0">>) >> }
LinesAfter ==
    { <<>>,
      << KeyValueLine(<<"\t">>, <<Q, "L", "a", "s", "t", "O", "w", "n", "e", "r", Q>>, <<"7">>),
         <<"}">> >> }

\* a manifest whose build id line is written with the given white space
ManifestWith(before, indent, sep, id, end, after) ==
    JoinLines(before \o << indent \o BuildIdKey \o sep \o <<Q>> \o id \o <<Q>> \o end >> \o after)

\* the manifests the reader is explored with
ManifestVariants ==
    { ManifestWith(b, i, sp, id, e, a) :
        b \in LinesBefore, i \in Indents, sp \in Separators, id \in BuildIds,
        e \in LineEnds, a \in LinesAfter }

\* the section of a branch in the output of app_info_print; id <<>>: the section
\* holds no build id
BranchSection(name, id) ==
    << <<Q>> \o name \o <<Q>>, <<"{">> >>
    \o (IF id = <<>> THEN << <<"\t", Q, "t", "i", "m", "e", Q, "\t", "\t", Q, "1", Q>> >>
        ELSE << KeyValueLine(<<"\t">>, BuildIdKey, id) >>)
    \o << <<"}">> >>

\* an output of app_info_print: the application id line or not, and the branches
\* "beta" and "public" in either order (betaAt 0: no beta branch, 1: before
\* public, 2: after it)
AppInfoWith(appIdLine, betaAt, betaId, publicId) ==
    JoinLines((IF appIdLine THEN <<QuotedAppID, <<"{">> >> ELSE <<>>)
              \o (IF betaAt = 1 THEN BranchSection(<<"b", "e", "t", "a">>, betaId) ELSE <<>>)
              \o BranchSection(<<"p", "u", "b", "l", "i", "c">>, publicId)
              \o (IF betaAt = 2 THEN BranchSection(<<"b", "e", "t", "a">>, betaId) ELSE <<>>)
              \o (IF appIdLine THEN << <<"}">> >> ELSE <<>>))

\* the outputs the parser of the remote build id is explored with
AppInfoVariants ==
    { <<0, AppInfoWith(al, at, bid, pid)>> :
        al \in BOOLEAN, at \in {0, 1, 2}, bid \in BuildIds, pid \in BuildIds \cup {<<>>} }

(***************************************************************************)
(* State.                                                                  *)
(***************************************************************************)
VARIABLES
    maxRetries,         \* config.MaxRetries
    retryCount,         \* UpdateController.retryCount
    pc,                 \* where the Run goroutine is
    ret,                \* what the call that returned last returned: [needed, err]
    calls,              \* the calls and counter updates of the current cycle, in order
    log,                \* what the call in progress has done so far, in order
    failures,           \* consecutive failed update attempts of the current round
    failedStage,        \* the stage whose failure was handled last, while no cycle has
                        \* succeeded and no other build has been published since
    gameDir,            \* os.Stat of <gameMountPath>/<steamApp>
    srcdsRun,           \* os.Stat of <gameMountPath>/<steamApp>/srcds_run
    manifest,           \* the file steamapps/appmanifest_<id>.acf
    published,          \* the build id of the public branch at the distribution service
    installedBuildID,   \* local of CheckUpdate
    output,             \* combined output of the last installer run of the current call
    exit,               \* exit status of that run
    pods,               \* local of restartPods: the listed pods
    idx,                \* restartPods: index of the pod the loop is at
    workloadsRestarted, \* local of restartPods: the keys restarted so far
    owner,              \* the workload being restarted: [kind, name]
    apiCalls,           \* cluster API calls issued by the current restartWorkload
    rsOwners,           \* cluster: the owner references of each ReplicaSet
    replicas,           \* cluster: spec.replicas of each ReplicaSet
    originalReplicas,   \* local of RestartReplicaSet
    tickBuffered,       \* ticker.C holds a tick (the channel has room for one)
    cancelled,          \* ctx.Done() is closed
    delays,             \* the waits of handleUpdateFailure in the current round of
                        \* consecutive failures, in order
    tool,               \* installer process: the lines it has still to write, per stream
    toolStatus,         \* installer process: Running, or its exit status
    wrote,              \* the lines the installer has written so far, per stream
    pipe,               \* the lines that wait in the pipe of each stream
    readerOpen,         \* the parent's read end of each pipe is open
    scanBuf,            \* bufio.Scanner of each logStream: lines read and not yet returned
    drainPc,            \* where each logStream goroutine is
    drainLine,          \* local line of each logStream
    combinedMu,         \* the stream whose logStream holds combinedMu, or "none"
    combined,           \* local of runSteamCMD: the shared buffer
    wg                  \* the WaitGroup counter of runSteamCMD

coordVars == <<maxRetries, retryCount, failures, failedStage, delays>>
ctxVars == <<tickBuffered, cancelled>>
diskVars == <<gameDir, srcdsRun, manifest>>
engineVars == <<installedBuildID, output, exit>>
restartVars == <<pods, idx, workloadsRestarted, owner, apiCalls, originalReplicas>>
clusterVars == <<rsOwners, replicas>>
toolVars == <<tool, toolStatus, wrote, pipe, readerOpen>>
drainVars == <<toolVars, scanBuf, drainPc, drainLine, combinedMu, combined, wg>>
vars == <<pc, ret, log, calls, published, ctxVars, coordVars, diskVars, engineVars, restartVars, clusterVars,
          drainVars>>

\* an event of the cycle's log
Ev(op, arg, n, flag) == [op |-> op, arg |-> arg, n |-> n, flag |-> flag]

Returns(needed, err) == [needed |-> needed, err |-> err]

\* the events of the log with operation op
EventsOf(op) == {i \in 1..Len(log) : log[i].op = op}

(***************************************************************************)
(* steamcmd.Client                                                         *)
(***************************************************************************)
\* os.WriteFile of a script followed by the installer run on it
WriteAndRun(path, script) ==
    <<Ev("write", path, 0, HasAppUpdate(script)), Ev("run", path, 0, HasAppUpdate(script))>>

\* what a run of an app_update script leaves on disk: the tool reports success
\* exactly when it has installed the published build
ToolInstalls(ex, out) == ex = 0 /\ Contains(out, SuccessMarker)

AppUpdateEffect(ex, out) ==
    IF ToolInstalls(ex, out)
    THEN /\ gameDir' = "exists"
         /\ srcdsRun' = "exists"
         /\ manifest' = FileWith(ManifestFor(published))
    ELSE UNCHANGED diskVars

\* a CheckUpdate that asks for the remote build id also when the manifest holds
\* no build id
CheckUpdateQueryingAnyway ==
    /\ pc = "CheckUpdate"
    /\ LET local == getInstalledBuildID(manifest) IN
       IF ~isGameInstalled(gameDir, srcdsRun)
       THEN /\ ret' = Returns(TRUE, NoErr)
            /\ pc' = "CheckUpdate_ret"
            /\ UNCHANGED <<log, installedBuildID>>
       ELSE /\ log' = Append(log, Ev("read", "appmanifest", 0, FALSE))
            /\ IF local.err # NoErr
               THEN /\ ret' = Returns(FALSE, Wrap("failed to get installed build ID", local.err))
                    /\ pc' = "CheckUpdate_ret"
                    /\ UNCHANGED installedBuildID
               ELSE /\ installedBuildID' = local.id
                    /\ pc' = "getLatestBuildID"
                    /\ UNCHANGED ret
    /\ UNCHANGED <<calls, published, drainVars, ctxVars, coordVars, diskVars, output, exit, restartVars, clusterVars>>

\* CheckUpdate up to the remote query (lines 57-77)
CheckUpdate ==
    /\ pc = "CheckUpdate"
    /\ LET local == getInstalledBuildID(manifest) IN
       IF ~isGameInstalled(gameDir, srcdsRun)
       THEN /\ ret' = Returns(TRUE, NoErr)
            /\ pc' = "CheckUpdate_ret"
            /\ UNCHANGED <<log, installedBuildID>>
       ELSE /\ log' = Append(log, Ev("read", "appmanifest", 0, FALSE))
            /\ IF local.err # NoErr
               THEN /\ ret' = Returns(FALSE, Wrap("failed to get installed build ID", local.err))
                    /\ pc' = "CheckUpdate_ret"
                    /\ UNCHANGED installedBuildID
               ELSE IF local.id = <<>>
               THEN /\ ret' = Returns(TRUE, NoErr)
                    /\ pc' = "CheckUpdate_ret"
                    /\ UNCHANGED installedBuildID
               ELSE /\ installedBuildID' = local.id
                    /\ pc' = "getLatestBuildID"
                    /\ UNCHANGED ret
    /\ UNCHANGED <<calls, published, drainVars, ctxVars, coordVars, diskVars, output, exit, restartVars, clusterVars>>

\* what the tool may print for app_info_print, with its exit status
AppInfoRuns ==
    {<<0, AppInfoFor(published)>>, <<0, AppInfoBranchOnly(published)>>,
     <<0, AppInfoEmpty>>, <<1, AppInfoEmpty>>, <<1, AppInfoFor(published)>>}

\* a comparison that takes a failed query for "no update"
CompareBuildIDsSwallowingError(installed, latest) ==
    IF latest.err # NoErr THEN Returns(FALSE, NoErr)
    ELSE IF installed # latest.id THEN Returns(TRUE, NoErr)
    ELSE Returns(FALSE, NoErr)

\* the comparison with its test inverted
CompareBuildIDsInverted(installed, latest) ==
    IF latest.err # NoErr
    THEN Returns(FALSE, Wrap("failed to get latest build ID", latest.err))
    ELSE IF installed = latest.id THEN Returns(TRUE, NoErr)
    ELSE Returns(FALSE, NoErr)

\* the comparison of CheckUpdate (lines 80-94)
CompareBuildIDs(installed, latest) ==
    IF latest.err # NoErr
    THEN Returns(FALSE, Wrap("failed to get latest build ID", latest.err))
    ELSE IF installed # latest.id THEN Returns(TRUE, NoErr)
    ELSE Returns(FALSE, NoErr)

\* getLatestBuildID and the rest of CheckUpdate (lines 80-94, 249-317); ToolRuns:
\* what the tool may print, with its exit status
getLatestBuildID(ToolRuns) ==
    /\ pc = "getLatestBuildID"
    /\ \/ \* os.WriteFile fails
          /\ log' = Append(log, Ev("write-failed", "app_info_check.txt", 0, HasAppUpdate(AppInfoScript)))
          /\ ret' = CompareBuildIDs(installedBuildID,
                        [id |-> <<>>, err |-> <<"failed to write app info script">>])
          /\ UNCHANGED <<output, exit>>
       \/ \E run \in ToolRuns :
          /\ log' = log \o WriteAndRun("app_info_check.txt", AppInfoScript)
                        \o <<Ev("remove", "app_info_check.txt", 0, FALSE)>>
          /\ exit' = run[1]
          /\ output' = run[2]
          /\ ret' = CompareBuildIDs(installedBuildID, parseLatestBuildID(run[1], run[2]))
    /\ pc' = "CheckUpdate_ret"
    /\ UNCHANGED <<calls, published, drainVars, ctxVars, coordVars, diskVars, installedBuildID, restartVars, clusterVars>>

\* an end of ApplyUpdate that trusts the exit status
CheckSuccessByExit(out) == Returns(FALSE, NoErr)

\* the end of ApplyUpdate (lines 130-134)
CheckSuccess(out) ==
    IF ~Contains(out, SuccessMarker)
    THEN Returns(FALSE, <<"update may have failed, check output">>)
    ELSE Returns(FALSE, NoErr)

\* an ApplyUpdate that takes a first run that succeeded for good, whatever else
\* it printed
ApplyUpdateSuccessFirst ==
    /\ pc = "ApplyUpdate"
    /\ \/ /\ log' = Append(log, Ev("write-failed", "tf_update.txt", 0,
                                   HasAppUpdate(createUpdateScript(FALSE))))
          /\ ret' = Returns(FALSE, <<"failed to create update script">>)
          /\ pc' = "ApplyUpdate_ret"
          /\ UNCHANGED <<output, exit, diskVars>>
       \/ \E ex \in {0, 1}, out \in UpdateOutputs :
          /\ log' = log \o WriteAndRun("tf_update.txt", createUpdateScript(FALSE))
          /\ exit' = ex
          /\ output' = out
          /\ AppUpdateEffect(ex, out)
          /\ IF ex = 0 /\ Contains(out, SuccessMarker)
             THEN /\ pc' = "ApplyUpdate_ret"
                  /\ ret' = Returns(FALSE, NoErr)
             ELSE IF hasState0x6Error(out)
             THEN /\ pc' = "clearSteamApps"
                  /\ UNCHANGED ret
             ELSE /\ pc' = "ApplyUpdate_ret"
                  /\ ret' = IF ex # 0 THEN Returns(FALSE, <<"steamcmd update failed">>)
                            ELSE CheckSuccess(out)
    /\ UNCHANGED <<calls, published, drainVars, ctxVars, coordVars, installedBuildID, restartVars, clusterVars>>

\* an ApplyUpdate that looks at the exit status before it looks for the signature
ApplyUpdateErrFirst ==
    /\ pc = "ApplyUpdate"
    /\ \/ /\ log' = Append(log, Ev("write-failed", "tf_update.txt", 0,
                                   HasAppUpdate(createUpdateScript(FALSE))))
          /\ ret' = Returns(FALSE, <<"failed to create update script">>)
          /\ pc' = "ApplyUpdate_ret"
          /\ UNCHANGED <<output, exit, diskVars>>
       \/ \E ex \in {0, 1}, out \in UpdateOutputs :
          /\ log' = log \o WriteAndRun("tf_update.txt", createUpdateScript(FALSE))
          /\ exit' = ex
          /\ output' = out
          /\ AppUpdateEffect(ex, out)
          /\ IF ex # 0
             THEN /\ pc' = "ApplyUpdate_ret"
                  /\ ret' = Returns(FALSE, <<"steamcmd update failed">>)
             ELSE IF hasState0x6Error(out)
             THEN /\ pc' = "clearSteamApps"
                  /\ UNCHANGED ret
             ELSE /\ pc' = "ApplyUpdate_ret"
                  /\ ret' = CheckSuccess(out)
    /\ UNCHANGED <<calls, published, drainVars, ctxVars, coordVars, installedBuildID, restartVars, clusterVars>>

\* ApplyUpdate up to the recovery decision (lines 98-128)
ApplyUpdate ==
    /\ pc = "ApplyUpdate"
    /\ \/ \* createUpdateScript fails
          /\ log' = Append(log, Ev("write-failed", "tf_update.txt", 0,
                                   HasAppUpdate(createUpdateScript(FALSE))))
          /\ ret' = Returns(FALSE, <<"failed to create update script">>)
          /\ pc' = "ApplyUpdate_ret"
          /\ UNCHANGED <<output, exit, diskVars>>
       \/ \E ex \in {0, 1}, out \in UpdateOutputs :
          /\ log' = log \o WriteAndRun("tf_update.txt", createUpdateScript(FALSE))
          /\ exit' = ex
          /\ output' = out
          /\ AppUpdateEffect(ex, out)
          /\ IF hasState0x6Error(out)
             THEN /\ pc' = "clearSteamApps"
                  /\ UNCHANGED ret
             ELSE /\ pc' = "ApplyUpdate_ret"
                  /\ ret' = IF ex # 0 THEN Returns(FALSE, <<"steamcmd update failed">>)
                            ELSE CheckSuccess(out)
    /\ UNCHANGED <<calls, published, drainVars, ctxVars, coordVars, installedBuildID, restartVars, clusterVars>>

\* clearSteamApps as ApplyUpdate calls it (lines 113-117, 208-218)
clearSteamApps ==
    /\ pc = "clearSteamApps"
    /\ \/ \* os.RemoveAll fails
          /\ log' = Append(log, Ev("remove-failed", "steamapps", 0, FALSE))
          /\ ret' = Returns(FALSE, <<"failed to clear steamapps for recovery",
                                     "failed to remove steamapps directory">>)
          /\ pc' = "ApplyUpdate_ret"
          /\ UNCHANGED manifest
       \/ /\ log' = Append(log, Ev("remove", "steamapps", 0, FALSE))
          /\ manifest' = AbsentFile
          /\ pc' = "ApplyUpdate_retry"
          /\ UNCHANGED ret
    /\ UNCHANGED <<calls, published, drainVars, ctxVars, coordVars, gameDir, srcdsRun, engineVars, restartVars, clusterVars>>

\* a re-run that starts another recovery when the signature shows again
ApplyUpdateRetryRecursive ==
    /\ pc = "ApplyUpdate_retry"
    /\ \E ex \in {0, 1}, out \in UpdateOutputs :
          /\ log' = Append(log, Ev("run", "tf_update.txt", 0, HasAppUpdate(createUpdateScript(FALSE))))
          /\ exit' = ex
          /\ output' = out
          /\ AppUpdateEffect(ex, out)
          /\ IF hasState0x6Error(out)
             THEN /\ pc' = "clearSteamApps"
                  /\ UNCHANGED ret
             ELSE /\ pc' = "ApplyUpdate_ret"
                  /\ ret' = IF ex # 0 THEN Returns(FALSE, <<"steamcmd update failed after 0x6 recovery">>)
                            ELSE CheckSuccess(out)
    /\ UNCHANGED <<calls, published, drainVars, ctxVars, coordVars, installedBuildID, restartVars, clusterVars>>

\* the re-run of ApplyUpdate after the recovery (lines 119-134)
ApplyUpdateRetry ==
    /\ pc = "ApplyUpdate_retry"
    /\ \E ex \in {0, 1}, out \in UpdateOutputs :
          /\ log' = Append(log, Ev("run", "tf_update.txt", 0, HasAppUpdate(createUpdateScript(FALSE))))
          /\ exit' = ex
          /\ output' = out
          /\ AppUpdateEffect(ex, out)
          /\ ret' = IF ex # 0 THEN Returns(FALSE, <<"steamcmd update failed after 0x6 recovery">>)
                    ELSE CheckSuccess(out)
    /\ pc' = "ApplyUpdate_ret"
    /\ UNCHANGED <<calls, published, drainVars, ctxVars, coordVars, installedBuildID, restartVars, clusterVars>>

\* a ValidateUpdate that trusts the exit status of the tool
ValidateUpdateTrustingExit ==
    /\ pc = "ValidateUpdate"
    /\ \/ /\ log' = Append(log, Ev("write-failed", "validate_script.txt", 0,
                                   HasAppUpdate(createValidateScript)))
          /\ ret' = Returns(FALSE, <<"failed to create validate script">>)
          /\ UNCHANGED <<output, exit, diskVars>>
       \/ \E ex \in {0, 1}, out \in UpdateOutputs :
          /\ log' = log \o WriteAndRun("validate_script.txt", createValidateScript)
          /\ exit' = ex
          /\ output' = out
          /\ AppUpdateEffect(ex, out)
          /\ ret' = IF ex # 0 THEN Returns(FALSE, <<"validation failed">>)
                    ELSE Returns(FALSE, NoErr)
    /\ pc' = "ValidateUpdate_ret"
    /\ UNCHANGED <<calls, published, drainVars, ctxVars, coordVars, installedBuildID, restartVars, clusterVars>>

\* ValidateUpdate (lines 138-157)
ValidateUpdate ==
    /\ pc = "ValidateUpdate"
    /\ \/ \* createValidateScript fails
          /\ log' = Append(log, Ev("write-failed", "validate_script.txt", 0,
                                   HasAppUpdate(createValidateScript)))
          /\ ret' = Returns(FALSE, <<"failed to create validate script">>)
          /\ UNCHANGED <<output, exit, diskVars>>
       \/ \E ex \in {0, 1}, out \in UpdateOutputs :
          /\ log' = log \o WriteAndRun("validate_script.txt", createValidateScript)
          /\ exit' = ex
          /\ output' = out
          /\ AppUpdateEffect(ex, out)
          /\ ret' = IF ex # 0 THEN Returns(FALSE, <<"validation failed">>)
                    ELSE IF ~Contains(out, SuccessMarker)
                    THEN Returns(FALSE, <<"validation reported issues">>)
                    ELSE Returns(FALSE, NoErr)
    /\ pc' = "ValidateUpdate_ret"
    /\ UNCHANGED <<calls, published, drainVars, ctxVars, coordVars, installedBuildID, restartVars, clusterVars>>

(***************************************************************************)
(* steamcmd.Client.runSteamCMD: the installer process, its two pipes, the  *)
(* two logStream goroutines and the goroutine that called runSteamCMD.     *)
(***************************************************************************)
Streams == {"stdout", "stderr"}

\* toolStatus while the process has not exited
Running == 0 - 1

\* the lines the installer may print on each stream, without their line feed
ToolLines ==
    [stdout |-> << <<"o", "1">>, <<"o", "2">>, <<"o", "3">> >>,
     stderr |-> << <<"e", "1", "\r">>, <<"e", "2">>, <<"e", "3">> >>]

\* bufio.ScanLines: the token is the line without its line feed and without a
\* carriage return before it
DropCR(l) == IF Len(l) > 0 /\ l[Len(l)] = "\r" THEN SubSeq(l, 1, Len(l) - 1) ELSE l

\* no installer process and no logStream goroutine exists
NoToolRunning ==
    /\ tool = [s \in Streams |-> <<>>]
    /\ toolStatus = Running
    /\ wrote = [s \in Streams |-> <<>>]
    /\ pipe = [s \in Streams |-> <<>>]
    /\ readerOpen = [s \in Streams |-> FALSE]
    /\ scanBuf = [s \in Streams |-> <<>>]
    /\ drainPc = [s \in Streams |-> "none"]
    /\ drainLine = [s \in Streams |-> <<>>]
    /\ combinedMu = "none"
    /\ combined = <<>>
    /\ wg = 0

\* runSteamCMD up to cmd.Wait (lines 320-370): the pipes are attached, the
\* process is started and the two logStream goroutines are launched
runSteamCMD ==
    /\ pc = "runSteamCMD"
    /\ \/ \E msg \in {"failed to attach steamcmd stdout", "failed to attach steamcmd stderr",
                      "failed to start steamcmd"} :
             /\ ret' = Returns(FALSE, <<msg>>)
             /\ output' = <<>>
             /\ pc' = "runSteamCMD_ret"
             /\ UNCHANGED <<readerOpen, drainPc, wg>>
       \/ /\ readerOpen' = [s \in Streams |-> TRUE]
          /\ drainPc' = [s \in Streams |-> "scan"]
          /\ wg' = 2
          /\ pc' = "cmd.Wait"
          /\ UNCHANGED <<ret, output>>
    /\ UNCHANGED <<log, calls, published, ctxVars, coordVars, diskVars, installedBuildID, exit,
                   restartVars, clusterVars, tool, toolStatus, wrote, pipe, scanBuf, drainLine,
                   combinedMu, combined>>

\* the installer writes its next line to one of its streams
ToolWrites(s) ==
    /\ pc \in {"cmd.Wait", "wg.Wait"}
    /\ toolStatus = Running
    /\ tool[s] # <<>>
    /\ pipe' = [pipe EXCEPT ![s] = Append(@, Head(tool[s]))]
    /\ wrote' = [wrote EXCEPT ![s] = Append(@, Head(tool[s]))]
    /\ tool' = [tool EXCEPT ![s] = Tail(@)]
    /\ UNCHANGED <<pc, ret, log, calls, published, ctxVars, coordVars, diskVars, engineVars,
                   restartVars, clusterVars, toolStatus, readerOpen, scanBuf, drainPc, drainLine,
                   combinedMu, combined, wg>>

\* the installer exits when it has written everything; its ends of the pipes close
ToolExits ==
    /\ pc \in {"cmd.Wait", "wg.Wait"}
    /\ toolStatus = Running
    /\ \A s \in Streams : tool[s] = <<>>
    /\ toolStatus' \in {0, 1}
    /\ UNCHANGED <<pc, ret, log, calls, published, ctxVars, coordVars, diskVars, engineVars,
                   restartVars, clusterVars, tool, wrote, pipe, readerOpen, scanBuf, drainPc,
                   drainLine, combinedMu, combined, wg>>

\* exec.CommandContext (line 321): the process is killed when ctx is done
ToolKilled ==
    /\ pc \in {"cmd.Wait", "wg.Wait"}
    /\ toolStatus = Running
    /\ cancelled
    /\ toolStatus' = 1
    /\ UNCHANGED <<pc, ret, log, calls, published, ctxVars, coordVars, diskVars, engineVars,
                   restartVars, clusterVars, tool, wrote, pipe, readerOpen, scanBuf, drainPc,
                   drainLine, combinedMu, combined, wg>>

\* logStream: scanner.Scan reads what waits in the pipe (line 343)
logStreamRead(s) ==
    /\ drainPc[s] = "scan"
    /\ scanBuf[s] = <<>>
    /\ readerOpen[s]
    /\ pipe[s] # <<>>
    /\ scanBuf' = [scanBuf EXCEPT ![s] = pipe[s]]
    /\ pipe' = [pipe EXCEPT ![s] = <<>>]
    /\ UNCHANGED <<pc, ret, log, calls, published, ctxVars, coordVars, diskVars, engineVars,
                   restartVars, clusterVars, tool, toolStatus, wrote, readerOpen, drainPc, drainLine,
                   combinedMu, combined, wg>>

\* logStream: scanner.Scan returns true and line := scanner.Text() (lines 343-344)
logStreamScan(s) ==
    /\ drainPc[s] = "scan"
    /\ scanBuf[s] # <<>>
    /\ drainLine' = [drainLine EXCEPT ![s] = DropCR(Head(scanBuf[s]))]
    /\ scanBuf' = [scanBuf EXCEPT ![s] = Tail(@)]
    /\ drainPc' = [drainPc EXCEPT ![s] = "Lock"]
    /\ UNCHANGED <<pc, ret, log, calls, published, ctxVars, coordVars, diskVars, engineVars,
                   restartVars, clusterVars, toolVars, combinedMu, combined, wg>>

\* logStream: scanner.Scan returns false and the deferred wg.Done runs (lines
\* 341, 343, 362-364): the read met the end of the stream, which is there once
\* the process has exited and the pipe is empty, or the read failed because the
\* parent's read end has been closed
logStreamDone(s) ==
    /\ drainPc[s] = "scan"
    /\ scanBuf[s] = <<>>
    /\ \/ readerOpen[s] /\ pipe[s] = <<>> /\ toolStatus # Running
       \/ ~readerOpen[s]
    /\ drainPc' = [drainPc EXCEPT ![s] = "done"]
    /\ wg' = wg - 1
    /\ UNCHANGED <<pc, ret, log, calls, published, ctxVars, coordVars, diskVars, engineVars,
                   restartVars, clusterVars, toolVars, scanBuf, drainLine, combinedMu, combined>>

\* a logStream that goes on without taking the mutex
logStreamLockSkipped(s) ==
    /\ drainPc[s] = "Lock"
    /\ combinedMu' = s
    /\ drainPc' = [drainPc EXCEPT ![s] = "WriteString"]
    /\ UNCHANGED <<pc, ret, log, calls, published, ctxVars, coordVars, diskVars, engineVars,
                   restartVars, clusterVars, toolVars, scanBuf, drainLine, combined, wg>>

\* logStream: combinedMu.Lock() (line 346)
logStreamLock(s) ==
    /\ drainPc[s] = "Lock"
    /\ combinedMu = "none"
    /\ combinedMu' = s
    /\ drainPc' = [drainPc EXCEPT ![s] = "WriteString"]
    /\ UNCHANGED <<pc, ret, log, calls, published, ctxVars, coordVars, diskVars, engineVars,
                   restartVars, clusterVars, toolVars, scanBuf, drainLine, combined, wg>>

\* logStream: combined.WriteString(line) (line 347)
logStreamWriteString(s) ==
    /\ drainPc[s] = "WriteString"
    /\ combined' = combined \o drainLine[s]
    /\ drainPc' = [drainPc EXCEPT ![s] = "WriteByte"]
    /\ UNCHANGED <<pc, ret, log, calls, published, ctxVars, coordVars, diskVars, engineVars,
                   restartVars, clusterVars, toolVars, scanBuf, drainLine, combinedMu, wg>>

\* logStream: combined.WriteByte('\n') (line 348)
logStreamWriteByte(s) ==
    /\ drainPc[s] = "WriteByte"
    /\ combined' = Append(combined, NL)
    /\ drainPc' = [drainPc EXCEPT ![s] = "Unlock"]
    /\ UNCHANGED <<pc, ret, log, calls, published, ctxVars, coordVars, diskVars, engineVars,
                   restartVars, clusterVars, toolVars, scanBuf, drainLine, combinedMu, wg>>

\* logStream: combinedMu.Unlock() and the logging of the line (lines 349-359)
logStreamUnlock(s) ==
    /\ drainPc[s] = "Unlock"
    /\ combinedMu' = "none"
    /\ drainPc' = [drainPc EXCEPT ![s] = "scan"]
    /\ UNCHANGED <<pc, ret, log, calls, published, ctxVars, coordVars, diskVars, engineVars,
                   restartVars, clusterVars, toolVars, scanBuf, drainLine, combined, wg>>

\* a cmd.Wait that leaves the read ends of the pipes open
cmdWaitKeepingPipes ==
    /\ pc = "cmd.Wait"
    /\ toolStatus # Running
    /\ exit' = toolStatus
    /\ pc' = "wg.Wait"
    /\ UNCHANGED <<ret, log, calls, published, ctxVars, coordVars, diskVars, installedBuildID,
                   output, restartVars, clusterVars, drainVars>>

\* cmdErr := cmd.Wait() (line 371): returns once the process has exited and
\* closes the parent's read ends of both pipes
cmdWait ==
    /\ pc = "cmd.Wait"
    /\ toolStatus # Running
    /\ exit' = toolStatus
    /\ readerOpen' = [s \in Streams |-> FALSE]
    /\ pc' = "wg.Wait"
    /\ UNCHANGED <<ret, log, calls, published, ctxVars, coordVars, diskVars, installedBuildID,
                   output, restartVars, clusterVars, tool, toolStatus, wrote, pipe, scanBuf,
                   drainPc, drainLine, combinedMu, combined, wg>>

\* a runSteamCMD that returns without waiting for the logStream goroutines
wgWaitNotWaiting ==
    /\ pc = "wg.Wait"
    /\ output' = combined
    /\ ret' = Returns(FALSE, IF exit # 0 THEN <<"exit status 1">> ELSE NoErr)
    /\ pc' = "runSteamCMD_ret"
    /\ UNCHANGED <<log, calls, published, ctxVars, coordVars, diskVars, installedBuildID, exit,
                   restartVars, clusterVars, drainVars>>

\* wg.Wait() and the return of combined.Bytes(), cmdErr (lines 372-374)
wgWait ==
    /\ pc = "wg.Wait"
    /\ wg = 0
    /\ output' = combined
    /\ ret' = Returns(FALSE, IF exit # 0 THEN <<"exit status 1">> ELSE NoErr)
    /\ pc' = "runSteamCMD_ret"
    /\ UNCHANGED <<log, calls, published, ctxVars, coordVars, diskVars, installedBuildID, exit,
                   restartVars, clusterVars, drainVars>>

(***************************************************************************)
(* k8s.Client and the restart stage of the controller                      *)
(***************************************************************************)
Ref(kind, name) == [kind |-> kind, name |-> name]

\* the ReplicaSets of the namespace
RSNames == {"a", "b"}

\* the owner references a listed pod may carry
PodOwnerChoices ==
    { <<>>,
      <<Ref("Deployment", "d"), Ref("StatefulSet", "s")>>,
      <<Ref("ReplicaSet", "a")>>,
      <<Ref("ReplicaSet", "b")>>,
      <<Ref("Job", "j")>> }

\* the owner references the ReplicaSets may carry
RSOwnerChoices ==
    { [a |-> ra, b |-> rb] :
        ra \in { <<Ref("Deployment", "d")>> },
        rb \in { <<>>, <<Ref("Rollout", "r"), Ref("Deployment", "d")>>, <<Ref("ReplicaSet", "a")>> } }

\* every list of at most MaxPods pods
AllPodLists == UNION {[1..n -> PodOwnerChoices] : n \in 0..MaxPods}

\* the lists the full cycle is explored with
CyclePodLists ==
    { <<>>,
      << <<Ref("ReplicaSet", "a")>>, <<Ref("ReplicaSet", "a")>>, <<Ref("ReplicaSet", "b")>> >>,
      << <<>>, <<Ref("Deployment", "d")>>, <<Ref("StatefulSet", "s")>>,
         <<Ref("DaemonSet", "m")>>, <<Ref("Job", "j")>> >> }

\* a resolver that follows the owners of ReplicaSets for two levels
GetPodOwnerTwoLevels(refs, getOk) ==
    IF Len(refs) = 0
    THEN [kind |-> "", name |-> "", err |-> <<"pod has no owner references">>, lookups |-> 0]
    ELSE LET first == refs[1] IN
         IF first.kind = "ReplicaSet" /\ getOk /\ Len(rsOwners[first.name]) > 0
         THEN LET second == rsOwners[first.name][1] IN
              IF second.kind = "ReplicaSet" /\ Len(rsOwners[second.name]) > 0
              THEN [kind |-> rsOwners[second.name][1].kind,
                    name |-> rsOwners[second.name][1].name, err |-> NoErr, lookups |-> 2]
              ELSE [kind |-> second.kind, name |-> second.name, err |-> NoErr, lookups |-> 1]
         ELSE [kind |-> first.kind, name |-> first.name, err |-> NoErr,
               lookups |-> IF first.kind = "ReplicaSet" THEN 1 ELSE 0]

\* GetPodOwner (lines 48-72); getOk: the ReplicaSet lookup succeeds; lookups:
\* the number of Get calls issued
GetPodOwner(refs, getOk) ==
    IF Len(refs) = 0
    THEN [kind |-> "", name |-> "", err |-> <<"pod has no owner references">>, lookups |-> 0]
    ELSE LET first == refs[1] IN
         IF first.kind = "ReplicaSet"
         THEN IF ~getOk
              THEN [kind |-> first.kind, name |-> first.name, err |-> NoErr, lookups |-> 1]
              ELSE IF Len(rsOwners[first.name]) > 0
              THEN [kind |-> rsOwners[first.name][1].kind,
                    name |-> rsOwners[first.name][1].name, err |-> NoErr, lookups |-> 1]
              ELSE [kind |-> first.kind, name |-> first.name, err |-> NoErr, lookups |-> 1]
         ELSE [kind |-> first.kind, name |-> first.name, err |-> NoErr, lookups |-> 0]

\* fmt.Sprintf("%s/%s", ownerKind, ownerName)
workloadKey(kind, name) == kind \o "/" \o name

\* restartPods: the listing (lines 11-28)
\* a restartPods that counts the workloads it restarted also when no pod is listed
restartPodsEmptyFails(PodLists) ==
    /\ pc = "restartPods"
    /\ \/ /\ ret' = Returns(FALSE, <<"failed to list pods", "failed to list pods">>)
          /\ pc' = "restartPods_ret"
          /\ UNCHANGED <<pods, idx, workloadsRestarted>>
       \/ \E ps \in PodLists :
          /\ pods' = ps
          /\ IF Len(ps) = 0
             THEN /\ ret' = Returns(FALSE, <<"failed to restart any workloads">>)
                  /\ pc' = "restartPods_ret"
                  /\ UNCHANGED <<idx, workloadsRestarted>>
             ELSE /\ idx' = 1
                  /\ workloadsRestarted' = {}
                  /\ pc' = "restartPods_loop"
                  /\ UNCHANGED ret
    /\ UNCHANGED <<log, calls, published, drainVars, ctxVars, coordVars, diskVars, engineVars, owner, apiCalls,
                   originalReplicas, clusterVars>>

restartPods(PodLists) ==
    /\ pc = "restartPods"
    /\ \/ \* ListPodsBySelector fails
          /\ ret' = Returns(FALSE, <<"failed to list pods", "failed to list pods">>)
          /\ pc' = "restartPods_ret"
          /\ UNCHANGED <<pods, idx, workloadsRestarted>>
       \/ \E ps \in PodLists :
          /\ pods' = ps
          /\ IF Len(ps) = 0
             THEN /\ ret' = Returns(FALSE, NoErr)
                  /\ pc' = "restartPods_ret"
                  /\ UNCHANGED <<idx, workloadsRestarted>>
             ELSE /\ idx' = 1
                  /\ workloadsRestarted' = {}
                  /\ pc' = "restartPods_loop"
                  /\ UNCHANGED ret
    /\ UNCHANGED <<log, calls, published, drainVars, ctxVars, coordVars, diskVars, engineVars, owner, apiCalls,
                   originalReplicas, clusterVars>>

\* a loop that gives up at the first pod without owner
restartPodsLoopStopping ==
    /\ pc = "restartPods_loop"
    /\ IF idx > Len(pods)
       THEN /\ ret' = IF Cardinality(workloadsRestarted) = 0
                      THEN Returns(FALSE, <<"failed to restart any workloads">>)
                      ELSE Returns(FALSE, NoErr)
            /\ pc' = "restartPods_ret"
            /\ UNCHANGED <<log, idx, owner, apiCalls>>
       ELSE \E getOk \in BOOLEAN :
            LET o == GetPodOwner(pods[idx], getOk)
                key == workloadKey(o.kind, o.name)
            IN IF o.err # NoErr
               THEN /\ log' = Append(log, Ev("GetPodOwner-failed", "", idx, FALSE))
                    /\ ret' = Returns(FALSE, o.err)
                    /\ pc' = "restartPods_ret"
                    /\ UNCHANGED <<idx, owner, apiCalls>>
               ELSE /\ log' = Append(log, Ev("GetPodOwner", key, idx, key \in workloadsRestarted))
                    /\ IF key \in workloadsRestarted
                       THEN /\ idx' = idx + 1
                            /\ UNCHANGED <<pc, ret, owner, apiCalls>>
                       ELSE /\ owner' = Ref(o.kind, o.name)
                            /\ apiCalls' = 0
                            /\ pc' = "restartWorkload"
                            /\ UNCHANGED <<ret, idx>>
    /\ UNCHANGED <<calls, published, drainVars, ctxVars, coordVars, diskVars, engineVars, pods, workloadsRestarted,
                   originalReplicas, clusterVars>>

\* restartPods: one iteration of the loop up to the dispatch, or the end of the
\* function (lines 30-44, 54-59)
restartPodsLoop ==
    /\ pc = "restartPods_loop"
    /\ IF idx > Len(pods)
       THEN /\ ret' = IF Cardinality(workloadsRestarted) = 0
                      THEN Returns(FALSE, <<"failed to restart any workloads">>)
                      ELSE Returns(FALSE, NoErr)
            /\ pc' = "restartPods_ret"
            /\ UNCHANGED <<log, idx, owner, apiCalls>>
       ELSE \E getOk \in BOOLEAN :
            LET o == GetPodOwner(pods[idx], getOk)
                key == workloadKey(o.kind, o.name)
            IN IF o.err # NoErr
               THEN /\ log' = Append(log, Ev("GetPodOwner-failed", "", idx, FALSE))
                    /\ idx' = idx + 1
                    /\ UNCHANGED <<pc, ret, owner, apiCalls>>
               ELSE /\ log' = Append(log, Ev("GetPodOwner", key, idx, key \in workloadsRestarted))
                    /\ IF key \in workloadsRestarted
                       THEN /\ idx' = idx + 1
                            /\ UNCHANGED <<pc, ret, owner, apiCalls>>
                       ELSE /\ owner' = Ref(o.kind, o.name)
                            /\ apiCalls' = 0
                            /\ pc' = "restartWorkload"
                            /\ UNCHANGED <<ret, idx>>
    /\ UNCHANGED <<calls, published, drainVars, ctxVars, coordVars, diskVars, engineVars, pods, workloadsRestarted,
                   originalReplicas, clusterVars>>

\* a dispatch that never records the workload as restarted
DispatchedNoMark(err, n) ==
    /\ log' = log \o (IF err # NoErr THEN <<Ev("error", err[1], n, FALSE)>> ELSE <<>>)
                  \o <<Ev("restartWorkload", workloadKey(owner.kind, owner.name), n, err = NoErr)>>
    /\ workloadsRestarted' = workloadsRestarted
    /\ idx' = idx + 1
    /\ apiCalls' = n
    /\ pc' = "restartPods_loop"

\* restartPods after restartWorkload returned err for the n-th API call, or nil
\* (lines 45-51)
Dispatched(err, n) ==
    /\ log' = log \o (IF err # NoErr THEN <<Ev("error", err[1], n, FALSE)>> ELSE <<>>)
                  \o <<Ev("restartWorkload", workloadKey(owner.kind, owner.name), n, err = NoErr)>>
    /\ workloadsRestarted' =
          IF err = NoErr
          THEN workloadsRestarted \cup {workloadKey(owner.kind, owner.name)}
          ELSE workloadsRestarted
    /\ idx' = idx + 1
    /\ apiCalls' = n
    /\ pc' = "restartPods_loop"

\* RestartDeployment, RestartStatefulSet, RestartDaemonSet (lines 74-138): a Get
\* and an Update of the restartedAt annotation, each of which may fail
RollingRestartResults(what) ==
    { [err |-> Wrap("failed to get " \o what, <<"api">>), n |-> 1],
      [err |-> Wrap("failed to update " \o what, <<"api">>), n |-> 2],
      [err |-> NoErr, n |-> 2] }

\* a dispatch that restarts every unknown kind like a Deployment
restartWorkloadDefaultRolling ==
    /\ pc = "restartWorkload"
    /\ CASE owner.kind = "StatefulSet" ->
              \E r \in RollingRestartResults("statefulset") :
                 Dispatched(r.err, r.n) /\ UNCHANGED originalReplicas
         [] owner.kind = "DaemonSet" ->
              \E r \in RollingRestartResults("daemonset") :
                 Dispatched(r.err, r.n) /\ UNCHANGED originalReplicas
         [] owner.kind = "ReplicaSet" ->
              /\ pc' = "RestartReplicaSet"
              /\ UNCHANGED <<log, workloadsRestarted, idx, apiCalls, originalReplicas>>
         [] OTHER ->
              \E r \in RollingRestartResults("deployment") :
                 Dispatched(r.err, r.n) /\ UNCHANGED originalReplicas
    /\ UNCHANGED <<ret, calls, published, drainVars, ctxVars, coordVars, diskVars, engineVars, pods, owner, clusterVars>>

\* restartWorkload (lines 63-76)
restartWorkload ==
    /\ pc = "restartWorkload"
    /\ CASE owner.kind = "Deployment" ->
              \E r \in RollingRestartResults("deployment") :
                 Dispatched(r.err, r.n) /\ UNCHANGED originalReplicas
         [] owner.kind = "StatefulSet" ->
              \E r \in RollingRestartResults("statefulset") :
                 Dispatched(r.err, r.n) /\ UNCHANGED originalReplicas
         [] owner.kind = "DaemonSet" ->
              \E r \in RollingRestartResults("daemonset") :
                 Dispatched(r.err, r.n) /\ UNCHANGED originalReplicas
         [] owner.kind = "ReplicaSet" ->
              /\ pc' = "RestartReplicaSet"
              /\ UNCHANGED <<log, workloadsRestarted, idx, apiCalls, originalReplicas>>
         [] OTHER ->
              Dispatched(<<"unsupported workload kind">>, 0) /\ UNCHANGED originalReplicas
    /\ UNCHANGED <<ret, calls, published, drainVars, ctxVars, coordVars, diskVars, engineVars, pods, owner, clusterVars>>

\* RestartReplicaSet: the first Get (lines 141-148); the event holds the count read
RestartReplicaSet ==
    /\ pc = "RestartReplicaSet"
    /\ \/ /\ Dispatched(<<"failed to get replicaset">>, 1)
          /\ UNCHANGED originalReplicas
       \/ /\ originalReplicas' = replicas[owner.name]
          /\ log' = Append(log, Ev("rs.Get", workloadKey(owner.kind, owner.name),
                                   replicas[owner.name], FALSE))
          /\ apiCalls' = 1
          /\ pc' = "RestartReplicaSet_scaleDown"
          /\ UNCHANGED <<workloadsRestarted, idx>>
    /\ UNCHANGED <<ret, calls, published, drainVars, ctxVars, coordVars, diskVars, engineVars, pods, owner, clusterVars>>

\* RestartReplicaSet: the Update to zero replicas (lines 150-158)
RestartReplicaSetScaleDown ==
    /\ pc = "RestartReplicaSet_scaleDown"
    /\ \/ /\ Dispatched(<<"failed to scale down replicaset">>, 2)
          /\ UNCHANGED replicas
       \/ /\ replicas' = [replicas EXCEPT ![owner.name] = 0]
          /\ log' = Append(log, Ev("rs.Update", workloadKey(owner.kind, owner.name), 0, FALSE))
          /\ apiCalls' = 2
          /\ pc' = "RestartReplicaSet_sleep"
          /\ UNCHANGED <<workloadsRestarted, idx>>
    /\ UNCHANGED <<ret, calls, published, drainVars, ctxVars, coordVars, diskVars, engineVars, pods, owner,
                   originalReplicas, rsOwners>>

\* RestartReplicaSet: time.Sleep(2 * time.Second) (line 161): the wait does not
\* look at ctx; the event is flagged when ctx is cancelled by the time it ends
RestartReplicaSetSleep ==
    /\ pc = "RestartReplicaSet_sleep"
    /\ log' = Append(log, Ev("time.Sleep", workloadKey(owner.kind, owner.name),
                             GraceSeconds, cancelled))
    /\ pc' = "RestartReplicaSet_reget"
    /\ UNCHANGED <<ret, calls, published, drainVars, ctxVars, coordVars, diskVars, engineVars, restartVars, clusterVars>>

\* RestartReplicaSet: the second Get (lines 163-167); the event holds the count read
RestartReplicaSetReget ==
    /\ pc = "RestartReplicaSet_reget"
    /\ \/ Dispatched(<<"failed to get replicaset after scale down">>, 3)
       \/ /\ log' = Append(log, Ev("rs.Get", workloadKey(owner.kind, owner.name),
                                   replicas[owner.name], FALSE))
          /\ apiCalls' = 3
          /\ pc' = "RestartReplicaSet_scaleUp"
          /\ UNCHANGED <<workloadsRestarted, idx>>
    /\ UNCHANGED <<ret, calls, published, drainVars, ctxVars, coordVars, diskVars, engineVars, pods, owner,
                   originalReplicas, clusterVars>>

\* a restore that keeps the count the second Get has read
RestartReplicaSetScaleUpReread ==
    /\ pc = "RestartReplicaSet_scaleUp"
    /\ \/ /\ Dispatched(<<"failed to scale up replicaset">>, 4)
          /\ UNCHANGED replicas
       \/ /\ replicas' = replicas
          /\ log' = Append(log, Ev("rs.Update", workloadKey(owner.kind, owner.name),
                                   replicas[owner.name], FALSE))
          /\ apiCalls' = 4
          /\ pc' = "RestartReplicaSet_ret"
          /\ UNCHANGED <<workloadsRestarted, idx>>
    /\ UNCHANGED <<ret, calls, published, drainVars, ctxVars, coordVars, diskVars, engineVars, pods, owner,
                   originalReplicas, rsOwners>>

\* RestartReplicaSet: the Update back to the original count (lines 169-173)
RestartReplicaSetScaleUp ==
    /\ pc = "RestartReplicaSet_scaleUp"
    /\ \/ /\ Dispatched(<<"failed to scale up replicaset">>, 4)
          /\ UNCHANGED replicas
       \/ /\ replicas' = [replicas EXCEPT ![owner.name] = originalReplicas]
          /\ log' = Append(log, Ev("rs.Update", workloadKey(owner.kind, owner.name),
                                   originalReplicas, FALSE))
          /\ apiCalls' = 4
          /\ pc' = "RestartReplicaSet_ret"
          /\ UNCHANGED <<workloadsRestarted, idx>>
    /\ UNCHANGED <<ret, calls, published, drainVars, ctxVars, coordVars, diskVars, engineVars, pods, owner,
                   originalReplicas, rsOwners>>

\* RestartReplicaSet returns nil (lines 175-176)
RestartReplicaSetReturn ==
    /\ pc = "RestartReplicaSet_ret"
    /\ Dispatched(NoErr, 4)
    /\ UNCHANGED <<ret, calls, published, drainVars, ctxVars, coordVars, diskVars, engineVars, pods, owner,
                   originalReplicas, clusterVars>>

\* a concurrent actor writes spec.replicas of the ReplicaSet that is being
\* restarted, while RestartReplicaSet waits between its two writes
ExternalScale ==
    /\ pc = "RestartReplicaSet_sleep"
    /\ \E n \in (0..MaxReplicas) \ {replicas[owner.name]} :
          replicas' = [replicas EXCEPT ![owner.name] = n]
    /\ UNCHANGED <<pc, ret, log, calls, published, drainVars, ctxVars, coordVars, diskVars, engineVars,
                   restartVars, rsOwners>>

\* the context of the cycle is cancelled
Cancel ==
    /\ ~cancelled
    /\ cancelled' = TRUE
    /\ UNCHANGED <<pc, ret, log, calls, published, drainVars, tickBuffered, coordVars, diskVars, engineVars,
                   restartVars, clusterVars>>

(***************************************************************************)
(* controller.UpdateController                                             *)
(***************************************************************************)
NoRestartLocals ==
    /\ pods' = <<>>
    /\ idx' = 0
    /\ workloadsRestarted' = {}
    /\ owner' = Ref("", "")
    /\ apiCalls' = 0
    /\ originalReplicas' = 0

NoEngineLocals ==
    /\ installedBuildID' = <<>>
    /\ output' = <<>>
    /\ exit' = 0

\* the coordinator calls fn: the engine's log starts empty
Call(fn) ==
    /\ calls' = Append(calls, Ev("call", fn, retryCount, FALSE))
    /\ log' = <<>>
    /\ pc' = fn

\* the entry of performUpdateCheck (lines 57-61)
EnterCycle ==
    /\ calls' = <<Ev("call", "CheckUpdate", retryCount, FALSE)>>
    /\ log' = <<>>
    /\ pc' = "CheckUpdate"
    /\ UNCHANGED <<ret, published, drainVars, coordVars, diskVars, engineVars, restartVars, clusterVars>>

\* Run: the initial check (lines 32-41)
Run ==
    /\ pc = "Run"
    /\ EnterCycle
    /\ UNCHANGED ctxVars

\* Run: the ticker fires while the loop waits in select (lines 43-52)
Tick ==
    /\ pc = "select"
    /\ EnterCycle
    /\ UNCHANGED ctxVars

\* a ticker that runs the check itself when it fires, whatever the loop is doing
TickerFiresStartingCycle ==
    /\ pc # "stopped"
    /\ calls' = Append(calls, Ev("call", "CheckUpdate", retryCount, FALSE))
    /\ log' = <<>>
    /\ pc' = "CheckUpdate"
    /\ tickBuffered' = TRUE
    /\ UNCHANGED <<ret, published, drainVars, cancelled, coordVars, diskVars, engineVars, restartVars, clusterVars>>

\* the ticker of Run fires (line 35): the tick waits in ticker.C, which holds one
\* tick; a tick that finds the channel full is dropped
TickerFires ==
    /\ pc # "stopped"
    /\ ~tickBuffered
    /\ tickBuffered' = TRUE
    /\ UNCHANGED <<pc, ret, log, calls, published, drainVars, cancelled, coordVars, diskVars, engineVars,
                   restartVars, clusterVars>>

\* Run: select receives the tick that waits in ticker.C (lines 48-51)
TickReceived ==
    /\ pc = "select"
    /\ tickBuffered
    /\ tickBuffered' = FALSE
    /\ EnterCycle
    /\ UNCHANGED cancelled

\* Run: select receives from ctx.Done() and Run returns ctx.Err() (lines 45-47)
RunStop ==
    /\ pc = "select"
    /\ cancelled
    /\ pc' = "stopped"
    /\ ret' = Returns(FALSE, <<"context canceled">>)
    /\ UNCHANGED <<log, calls, published, drainVars, ctxVars, coordVars, diskVars, engineVars, restartVars,
                   clusterVars>>

\* performUpdateCheck after CheckUpdate returned (lines 61-72)
performUpdateCheck ==
    /\ pc = "CheckUpdate_ret"
    /\ IF ret.err # NoErr
       THEN /\ ret' = Returns(FALSE, Wrap("failed to check for updates", ret.err))
            /\ pc' = "Run_ret"
            /\ log' = <<>>
            /\ UNCHANGED calls
       ELSE IF ~ret.needed
       THEN /\ ret' = Returns(FALSE, NoErr)
            /\ pc' = "Run_ret"
            /\ log' = <<>>
            /\ UNCHANGED calls
       ELSE /\ Call("ApplyUpdate")
            /\ UNCHANGED ret
    /\ NoEngineLocals
    /\ UNCHANGED <<published, drainVars, ctxVars, coordVars, diskVars, restartVars, clusterVars>>

\* an applyUpdate that goes on to validate whatever ApplyUpdate returned
applyUpdateAppliedIgnoringFailure ==
    /\ pc = "ApplyUpdate_ret"
    /\ Call("ValidateUpdate")
    /\ ret' = Returns(FALSE, NoErr)
    /\ NoEngineLocals
    /\ UNCHANGED <<published, drainVars, ctxVars, coordVars, diskVars, restartVars, clusterVars>>

\* applyUpdate after ApplyUpdate returned (lines 79-85)
applyUpdateApplied ==
    /\ pc = "ApplyUpdate_ret"
    /\ IF ret.err # NoErr
       THEN /\ pc' = "handleUpdateFailure"
            /\ log' = <<>>
            /\ UNCHANGED <<ret, calls>>
       ELSE /\ Call("ValidateUpdate")
            /\ UNCHANGED ret
    /\ NoEngineLocals
    /\ UNCHANGED <<published, drainVars, ctxVars, coordVars, diskVars, restartVars, clusterVars>>

\* a validation failure that is returned without being counted
applyUpdateValidatedUncounted ==
    /\ pc = "ValidateUpdate_ret"
    /\ IF ret.err # NoErr
       THEN /\ ret' = Returns(FALSE, Wrap("update validation failed", ret.err))
            /\ pc' = "Run_ret"
            /\ log' = <<>>
            /\ UNCHANGED calls
       ELSE /\ Call("restartPods")
            /\ UNCHANGED ret
    /\ NoEngineLocals
    /\ UNCHANGED <<published, drainVars, ctxVars, coordVars, diskVars, restartVars, clusterVars>>

\* applyUpdate after ValidateUpdate returned (lines 85-91)
applyUpdateValidated ==
    /\ pc = "ValidateUpdate_ret"
    /\ IF ret.err # NoErr
       THEN /\ ret' = Returns(FALSE, Wrap("update validation failed", ret.err))
            /\ pc' = "handleUpdateFailure"
            /\ log' = <<>>
            /\ UNCHANGED calls
       ELSE /\ Call("restartPods")
            /\ UNCHANGED ret
    /\ NoEngineLocals
    /\ UNCHANGED <<published, drainVars, ctxVars, coordVars, diskVars, restartVars, clusterVars>>

\* a full success that leaves the retry counter as it was
applyUpdateRestartedNoReset ==
    /\ pc = "restartPods_ret"
    /\ IF ret.err # NoErr
       THEN /\ ret' = Returns(FALSE, Wrap("failed to restart pods", ret.err))
            /\ pc' = "handleUpdateFailure"
            /\ UNCHANGED <<calls, retryCount, failures, failedStage, delays>>
       ELSE /\ failures' = 0
            /\ failedStage' = "none"
            /\ delays' = <<>>
            /\ calls' = Append(calls, Ev("retryCount=0", "success", retryCount, FALSE))
            /\ ret' = Returns(FALSE, NoErr)
            /\ pc' = "Run_ret"
            /\ UNCHANGED retryCount
    /\ log' = <<>>
    /\ NoRestartLocals
    /\ UNCHANGED <<published, drainVars, ctxVars, maxRetries, diskVars, engineVars, clusterVars>>

\* applyUpdate after restartPods returned (lines 91-97)
applyUpdateRestarted ==
    /\ pc = "restartPods_ret"
    /\ IF ret.err # NoErr
       THEN /\ ret' = Returns(FALSE, Wrap("failed to restart pods", ret.err))
            /\ pc' = "handleUpdateFailure"
            /\ UNCHANGED <<calls, retryCount, failures, failedStage, delays>>
       ELSE /\ retryCount' = 0
            /\ failures' = 0
            /\ failedStage' = "none"
            /\ delays' = <<>>
            /\ calls' = Append(calls, Ev("retryCount=0", "success", retryCount, FALSE))
            /\ ret' = Returns(FALSE, NoErr)
            /\ pc' = "Run_ret"
    /\ log' = <<>>
    /\ NoRestartLocals
    /\ UNCHANGED <<published, drainVars, ctxVars, maxRetries, diskVars, engineVars, clusterVars>>

\* handleUpdateFailure: the increment (lines 101-103); the event is flagged when
\* the failure follows a round of maxRetries consecutive failures
handleUpdateFailure ==
    /\ pc = "handleUpdateFailure"
    /\ retryCount' = retryCount + 1
    /\ failures' = IF failures >= maxRetries THEN 1 ELSE failures + 1
    /\ failedStage' = calls[Len(calls)].arg
    /\ calls' = Append(calls, Ev("retryCount++", "", retryCount + 1, failures >= maxRetries))
    /\ pc' = "handleUpdateFailure_check"
    /\ UNCHANGED <<ret, log, published, drainVars, ctxVars, maxRetries, delays, diskVars, engineVars, restartVars, clusterVars>>

\* a comparison with MaxRetries that is off by one
handleUpdateFailureCheckOffByOne ==
    /\ pc = "handleUpdateFailure_check"
    /\ IF retryCount > maxRetries
       THEN /\ retryCount' = 0
            /\ delays' = <<>>
            /\ calls' = Append(calls, Ev("retryCount=0", "exhausted", retryCount, FALSE))
            /\ ret' = Returns(FALSE, Wrap("update failed after MaxRetries attempts", ret.err))
            /\ pc' = "Run_ret"
       ELSE /\ pc' = "handleUpdateFailure_sleep"
            /\ UNCHANGED <<retryCount, delays, calls, ret>>
    /\ UNCHANGED <<log, published, drainVars, ctxVars, maxRetries, failures, failedStage, diskVars, engineVars, restartVars, clusterVars>>

\* handleUpdateFailure: the comparison with MaxRetries (lines 105-111)
handleUpdateFailureCheck ==
    /\ pc = "handleUpdateFailure_check"
    /\ IF retryCount >= maxRetries
       THEN /\ retryCount' = 0
            /\ delays' = <<>>
            /\ calls' = Append(calls, Ev("retryCount=0", "exhausted", retryCount, FALSE))
            /\ ret' = Returns(FALSE, Wrap("update failed after MaxRetries attempts", ret.err))
            /\ pc' = "Run_ret"
       ELSE /\ pc' = "handleUpdateFailure_sleep"
            /\ UNCHANGED <<retryCount, delays, calls, ret>>
    /\ UNCHANGED <<log, published, drainVars, ctxVars, maxRetries, failures, failedStage, diskVars, engineVars, restartVars, clusterVars>>

\* a failure handler that applies the update again after the delay
handleUpdateFailureSleepRetrying ==
    /\ pc = "handleUpdateFailure_sleep"
    /\ calls' = calls \o <<Ev("sleep", "RetryDelay", retryCount, FALSE),
                           Ev("call", "ApplyUpdate", retryCount, FALSE)>>
    /\ log' = <<>>
    /\ pc' = "ApplyUpdate"
    /\ ret' = Returns(FALSE, NoErr)
    /\ delays' = Append(delays, RetryDelay)
    /\ UNCHANGED <<published, drainVars, ctxVars, maxRetries, retryCount, failures, failedStage, diskVars,
                   engineVars, restartVars, clusterVars>>

\* a failure handler that starts counting afresh after it has waited
handleUpdateFailureSleepResetting ==
    /\ pc = "handleUpdateFailure_sleep"
    /\ calls' = Append(calls, Ev("sleep", "RetryDelay", retryCount, FALSE))
    /\ delays' = Append(delays, RetryDelay)
    /\ retryCount' = 0
    /\ pc' = "Run_ret"
    /\ UNCHANGED <<ret, log, published, drainVars, ctxVars, maxRetries, failures, failedStage,
                   diskVars, engineVars, restartVars, clusterVars>>

\* handleUpdateFailure: time.Sleep(uc.config.RetryDelay) and the return (lines 112-114)
handleUpdateFailureSleep ==
    /\ pc = "handleUpdateFailure_sleep"
    /\ calls' = Append(calls, Ev("sleep", "RetryDelay", retryCount, FALSE))
    /\ delays' = Append(delays, RetryDelay)
    /\ pc' = "Run_ret"
    /\ UNCHANGED <<ret, log, published, drainVars, ctxVars, maxRetries, retryCount, failures, failedStage,
                   diskVars, engineVars, restartVars, clusterVars>>

\* main after cancel() (part_002 lines 75-83): it waits two seconds and returns,
\* which ends the process and the Run goroutine with it, wherever that one is
mainReturns ==
    /\ cancelled
    /\ pc \notin {"stopped", "exited"}
    /\ pc' = "exited"
    /\ UNCHANGED <<ret, log, calls, published, drainVars, ctxVars, coordVars, diskVars, engineVars,
                   restartVars, clusterVars>>

\* Run after performUpdateCheck returned: log the error, back to select
\* (lines 39-43, 49-52)
RunLoop ==
    /\ pc = "Run_ret"
    /\ pc' = "select"
    /\ ret' = Returns(FALSE, NoErr)
    /\ calls' = <<>>
    /\ UNCHANGED <<log, published, drainVars, ctxVars, coordVars, diskVars, engineVars, restartVars, clusterVars>>

\* the distribution service publishes another build
Publish ==
    /\ \E id \in BuildIds \ {published} : published' = id
    /\ failedStage' = "none"
    /\ UNCHANGED <<pc, ret, log, calls, ctxVars, maxRetries, retryCount, failures, delays, diskVars, engineVars,
                   restartVars, clusterVars, drainVars>>

(***************************************************************************)
(* Specifications                                                          *)
(***************************************************************************)
InitLocals ==
    /\ ret = Returns(FALSE, NoErr)
    /\ log = <<>>
    /\ calls = <<>>
    /\ installedBuildID = <<>>
    /\ output = <<>>
    /\ exit = 0
    /\ pods = <<>>
    /\ idx = 0
    /\ workloadsRestarted = {}
    /\ owner = Ref("", "")
    /\ apiCalls = 0
    /\ originalReplicas = 0
    /\ NoToolRunning

\* the controller after NewUpdateController, on any installation
Init ==
    /\ pc = "Run"
    /\ maxRetries \in 0..MaxRetriesBound
    /\ retryCount = 0
    /\ failures = 0
    /\ failedStage = "none"
    /\ delays = <<>>
    /\ tickBuffered = FALSE
    /\ cancelled = FALSE
    /\ gameDir \in {"exists", "missing"}
    /\ srcdsRun \in {"exists", "missing"}
    /\ manifest \in {AbsentFile, UnreadableFile, FileWith(MalformedManifest)}
                   \cup {FileWith(ManifestFor(id)) : id \in BuildIds}
    /\ published \in BuildIds
    /\ rsOwners = [a |-> <<Ref("Deployment", "d")>>, b |-> <<>>]
    /\ replicas = [a |-> MaxReplicas, b |-> 1]
    /\ InitLocals

Next ==
    \/ Run
    \/ Tick
    \/ CheckUpdate
    \/ getLatestBuildID(AppInfoRuns)
    \/ performUpdateCheck
    \/ ApplyUpdate
    \/ clearSteamApps
    \/ ApplyUpdateRetry
    \/ applyUpdateApplied
    \/ ValidateUpdate
    \/ applyUpdateValidated
    \/ restartPods(CyclePodLists)
    \/ restartPodsLoop
    \/ restartWorkload
    \/ RestartReplicaSet
    \/ RestartReplicaSetScaleDown
    \/ RestartReplicaSetSleep
    \/ RestartReplicaSetReget
    \/ RestartReplicaSetScaleUp
    \/ RestartReplicaSetReturn
    \/ applyUpdateRestarted
    \/ handleUpdateFailure
    \/ handleUpdateFailureCheck
    \/ handleUpdateFailureSleep
    \/ RunLoop
    \/ Publish

Spec == Init /\ [][Next]_vars

\* the restart stage alone, on every list of pods and every ownership of the ReplicaSets
InitRestart ==
    /\ pc = "restartPods"
    /\ maxRetries = MaxRetriesBound
    /\ retryCount = 0
    /\ failures = 0
    /\ failedStage = "none"
    /\ delays = <<>>
    /\ tickBuffered = FALSE
    /\ cancelled = FALSE
    /\ gameDir = "exists"
    /\ srcdsRun = "exists"
    /\ manifest = AbsentFile
    /\ published = CHOOSE id \in BuildIds : TRUE
    /\ rsOwners \in RSOwnerChoices
    /\ replicas = [a |-> MaxReplicas, b |-> 1]
    /\ InitLocals

NextRestart ==
    \/ restartPods(AllPodLists)
    \/ restartPodsLoop
    \/ restartWorkload
    \/ RestartReplicaSet
    \/ RestartReplicaSetScaleDown
    \/ RestartReplicaSetSleep
    \/ RestartReplicaSetReget
    \/ RestartReplicaSetScaleUp
    \/ RestartReplicaSetReturn

SpecRestart == InitRestart /\ [][NextRestart]_vars

\* the loop of Run with its ticker and its context, on an installed game, with one
\* more retry than the controller is explored with otherwise
InitLoop ==
    /\ pc = "Run"
    /\ maxRetries = MaxRetriesBound + 1
    /\ retryCount = 0
    /\ failures = 0
    /\ failedStage = "none"
    /\ delays = <<>>
    /\ tickBuffered = FALSE
    /\ cancelled = FALSE
    /\ gameDir = "exists"
    /\ srcdsRun = "exists"
    /\ manifest \in {FileWith(ManifestFor(id)) : id \in BuildIds}
    /\ published \in BuildIds
    /\ rsOwners = [a |-> <<Ref("Deployment", "d")>>, b |-> <<>>]
    /\ replicas = [a |-> MaxReplicas, b |-> 1]
    /\ InitLocals

NextLoop ==
    \/ Run
    \/ TickerFires
    \/ TickReceived
    \/ Cancel
    \/ RunStop
    \/ CheckUpdate
    \/ getLatestBuildID(AppInfoRuns)
    \/ performUpdateCheck
    \/ ApplyUpdate
    \/ clearSteamApps
    \/ ApplyUpdateRetry
    \/ applyUpdateApplied
    \/ ValidateUpdate
    \/ applyUpdateValidated
    \/ restartPods(CyclePodLists)
    \/ restartPodsLoop
    \/ restartWorkload
    \/ RestartReplicaSet
    \/ RestartReplicaSetScaleDown
    \/ RestartReplicaSetSleep
    \/ RestartReplicaSetReget
    \/ RestartReplicaSetScaleUp
    \/ RestartReplicaSetReturn
    \/ applyUpdateRestarted
    \/ handleUpdateFailure
    \/ handleUpdateFailureCheck
    \/ handleUpdateFailureSleep
    \/ RunLoop

SpecLoop == InitLoop /\ [][NextLoop]_vars

\* what os.Stat may find at the game directory and at the marker file in it
StatOutcomes ==
    { <<"exists", "exists">>, <<"exists", "missing">>, <<"exists", "denied">>,
      <<"missing", "missing">>, <<"denied", "denied">> }

\* CheckUpdate alone, on every state of the installation paths, every manifest and
\* every output of the remote query
InitParse ==
    /\ pc = "CheckUpdate"
    /\ maxRetries = MaxRetriesBound
    /\ retryCount = 0
    /\ failures = 0
    /\ failedStage = "none"
    /\ delays = <<>>
    /\ tickBuffered = FALSE
    /\ cancelled = FALSE
    /\ \E st \in StatOutcomes : gameDir = st[1] /\ srcdsRun = st[2]
    /\ manifest \in {AbsentFile, UnreadableFile, FileWith(MalformedManifest)}
                   \cup {FileWith(m) : m \in ManifestVariants}
    /\ published = CHOOSE id \in BuildIds : TRUE
    /\ rsOwners = [a |-> <<>>, b |-> <<>>]
    /\ replicas = [a |-> 1, b |-> 1]
    /\ InitLocals

NextParse ==
    \/ CheckUpdate
    \/ getLatestBuildID(AppInfoVariants)

SpecParse == InitParse /\ [][NextParse]_vars

\* the lists the scale-cycle restart is explored with: pods behind ReplicaSets
ScalePodLists ==
    UNION {[1..n -> { <<Ref("ReplicaSet", "a")>>, <<Ref("ReplicaSet", "b")>> }] : n \in 1..2}

\* the restart stage on pods behind unowned ReplicaSets, with a concurrent actor
\* on the replica counts and a context that may be cancelled
InitScale ==
    /\ pc = "restartPods"
    /\ maxRetries = MaxRetriesBound
    /\ retryCount = 0
    /\ failures = 0
    /\ failedStage = "none"
    /\ delays = <<>>
    /\ tickBuffered = FALSE
    /\ cancelled = FALSE
    /\ gameDir = "exists"
    /\ srcdsRun = "exists"
    /\ manifest = AbsentFile
    /\ published = CHOOSE id \in BuildIds : TRUE
    /\ rsOwners = [a |-> <<>>, b |-> <<>>]
    /\ replicas \in [RSNames -> 1..MaxReplicas]
    /\ InitLocals

NextScale ==
    \/ restartPods(ScalePodLists)
    \/ restartPodsLoop
    \/ restartWorkload
    \/ RestartReplicaSet
    \/ RestartReplicaSetScaleDown
    \/ RestartReplicaSetSleep
    \/ RestartReplicaSetReget
    \/ RestartReplicaSetScaleUp
    \/ RestartReplicaSetReturn
    \/ ExternalScale
    \/ Cancel

SpecScale == InitScale /\ [][NextScale]_vars

\* the controller as main starts it with the default MAX_RETRIES, on an
\* installation whose manifest holds a build id
InitStop ==
    /\ pc = "Run"
    /\ maxRetries = DefaultMaxRetries
    /\ retryCount = 0
    /\ failures = 0
    /\ failedStage = "none"
    /\ delays = <<>>
    /\ tickBuffered = FALSE
    /\ cancelled = FALSE
    /\ gameDir = "exists"
    /\ srcdsRun = "exists"
    /\ manifest = FileWith(ManifestFor(CHOOSE id \in BuildIds : TRUE))
    /\ published \in BuildIds
    /\ rsOwners = [a |-> <<Ref("Deployment", "d")>>, b |-> <<>>]
    /\ replicas = [a |-> MaxReplicas, b |-> 1]
    /\ InitLocals

\* the steps of the Run goroutine inside a cycle, CheckUpdate's first step apart
CycleStepAfterCheck ==
    \/ Run
    \/ getLatestBuildID(AppInfoRuns)
    \/ performUpdateCheck
    \/ ApplyUpdate
    \/ clearSteamApps
    \/ ApplyUpdateRetry
    \/ applyUpdateApplied
    \/ ValidateUpdate
    \/ applyUpdateValidated
    \/ restartPods(CyclePodLists)
    \/ restartPodsLoop
    \/ restartWorkload
    \/ RestartReplicaSet
    \/ RestartReplicaSetScaleDown
    \/ RestartReplicaSetSleep
    \/ RestartReplicaSetReget
    \/ RestartReplicaSetScaleUp
    \/ RestartReplicaSetReturn
    \/ applyUpdateRestarted
    \/ handleUpdateFailure
    \/ handleUpdateFailureCheck
    \/ handleUpdateFailureSleep
    \/ RunLoop

\* the program from main on: the Run goroutine, the ticker, the signal that
\* cancels the context, and the return of main
NextStop ==
    \/ CheckUpdate
    \/ CycleStepAfterCheck
    \/ TickerFires
    \/ TickReceived
    \/ Cancel
    \/ RunStop
    \/ mainReturns

\* the Run goroutine is scheduled as long as it can take a step: weak fairness
\* of its steps, written on the state for CheckUpdate, which can take its step
\* exactly while pc = "CheckUpdate"; and a select that finds ctx.Done() ready
\* again and again takes that case in the end (the runtime picks among the ready
\* cases at random): strong fairness of RunStop. Nothing is assumed of the
\* ticker, of the signal, or of the return of main
SpecStop ==
    /\ InitStop /\ [][NextStop]_vars
    /\ WF_vars(CycleStepAfterCheck)
    /\ []<>(pc # "CheckUpdate")
    /\ SF_vars(RunStop)

\* a call of runSteamCMD on an installer that prints up to MaxLines lines on each
\* stream
InitDrain ==
    /\ pc = "runSteamCMD"
    /\ maxRetries = MaxRetriesBound
    /\ retryCount = 0
    /\ failures = 0
    /\ failedStage = "none"
    /\ delays = <<>>
    /\ tickBuffered = FALSE
    /\ cancelled = FALSE
    /\ gameDir = "exists"
    /\ srcdsRun = "exists"
    /\ manifest = AbsentFile
    /\ published = CHOOSE id \in BuildIds : TRUE
    /\ rsOwners = [a |-> <<>>, b |-> <<>>]
    /\ replicas = [a |-> 1, b |-> 1]
    /\ ret = Returns(FALSE, NoErr)
    /\ log = <<>>
    /\ calls = <<>>
    /\ installedBuildID = <<>>
    /\ output = <<>>
    /\ exit = 0
    /\ pods = <<>>
    /\ idx = 0
    /\ workloadsRestarted = {}
    /\ owner = Ref("", "")
    /\ apiCalls = 0
    /\ originalReplicas = 0
    /\ \E n \in [Streams -> 0..MaxLines] :
          tool = [s \in Streams |-> SubSeq(ToolLines[s], 1, n[s])]
    /\ toolStatus = Running
    /\ wrote = [s \in Streams |-> <<>>]
    /\ pipe = [s \in Streams |-> <<>>]
    /\ readerOpen = [s \in Streams |-> FALSE]
    /\ scanBuf = [s \in Streams |-> <<>>]
    /\ drainPc = [s \in Streams |-> "none"]
    /\ drainLine = [s \in Streams |-> <<>>]
    /\ combinedMu = "none"
    /\ combined = <<>>
    /\ wg = 0

NextDrain ==
    \/ runSteamCMD
    \/ \E s \in Streams : ToolWrites(s)
    \/ ToolExits
    \/ ToolKilled
    \/ Cancel
    \/ \E s \in Streams : logStreamRead(s)
    \/ \E s \in Streams : logStreamScan(s)
    \/ \E s \in Streams : logStreamDone(s)
    \/ \E s \in Streams : logStreamLock(s)
    \/ \E s \in Streams : logStreamWriteString(s)
    \/ \E s \in Streams : logStreamWriteByte(s)
    \/ \E s \in Streams : logStreamUnlock(s)
    \/ cmdWait
    \/ wgWait

SpecDrain == InitDrain /\ [][NextDrain]_vars

(***************************************************************************)
(* What the claims speak of                                                *)
(***************************************************************************)
\* the lines of ProgressLines the tool printed in out
LinesOf(out) == CHOOSE S \in SUBSET (1..Len(ProgressLines)) : JoinLines(PickLines(S, 1)) = out

\* the tool printed the line "Success!"
SuccessPrinted(out) == 1 \in LinesOf(out)

\* the corruption signature: "state is 0x6", "state is 0x606", or "Error! App"
\* together with a line holding "0x6"
SignaturePrinted(out) ==
    LET S == LinesOf(out) IN 2 \in S \/ 3 \in S \/ (4 \in S /\ 5 \in S)

InCheckUpdate == pc \in {"CheckUpdate", "getLatestBuildID", "CheckUpdate_ret"}
InApplyUpdate == pc \in {"ApplyUpdate", "clearSteamApps", "ApplyUpdate_retry", "ApplyUpdate_ret"}

Runs == Cardinality(EventsOf("run"))
Deletions == Cardinality(EventsOf("remove") \cup EventsOf("remove-failed"))

\* C1: during CheckUpdate the only script written or run is the app_info_print
\* script app_info_check.txt; no script with an app_update directive is written
\* or run, and the installer runs at most once
C1_CheckUpdateNeverDownloads ==
    InCheckUpdate =>
        /\ \A i \in 1..Len(log) :
              log[i].op \in {"write", "write-failed", "run"} =>
                  ~log[i].flag /\ log[i].arg = "app_info_check.txt"
        /\ Runs <= 1

\* a CheckUpdate that has queried the remote build id and found an update
C1_Witness ==
    /\ pc = "CheckUpdate_ret"
    /\ Runs = 1
    /\ ret = Returns(TRUE, NoErr)

\* C2: installed, manifest of build x, the query printed the app info of build y
\* with exit status 0: CheckUpdate returns (x # y, nil)
C2_NeededIffBuildIdsDiffer ==
    (pc = "CheckUpdate_ret" /\ Runs = 1 /\ exit = 0) =>
        \A x \in BuildIds, y \in BuildIds :
            (/\ isGameInstalled(gameDir, srcdsRun)
             /\ manifest = FileWith(ManifestFor(x))
             /\ output \in {AppInfoFor(y), AppInfoBranchOnly(y)})
            => ret = Returns(x # y, NoErr)

\* CheckUpdate found the installed build to be the published one
C2_Witness ==
    /\ pc = "CheckUpdate_ret"
    /\ Runs = 1
    /\ exit = 0
    /\ manifest = FileWith(ManifestFor(published))
    /\ output = AppInfoFor(published)
    /\ ret = Returns(FALSE, NoErr)

\* C3 as stated: when ApplyUpdate returns, a first run that printed the signature
\* has been followed by one deletion of steamapps and one re-run
C3_RecoveryAlwaysReruns ==
    pc = "ApplyUpdate_ret" =>
        /\ Runs <= 2 /\ Deletions <= 1
        /\ Runs = 1 => ~SignaturePrinted(output)
        /\ Runs = 2 => Deletions = 1

\* C3: in one call of ApplyUpdate the recovery is entered exactly when the first
\* run printed the signature, at most once: at most one deletion of steamapps is
\* attempted, there are at most two runs, and the second run happens exactly
\* after a deletion that succeeded; a deletion that fails ends the call
C3_OneRecoveryPerCall ==
    /\ InApplyUpdate => Runs <= 2 /\ Deletions <= 1
    /\ pc = "clearSteamApps" => Runs = 1 /\ Deletions = 0 /\ SignaturePrinted(output)
    /\ pc = "ApplyUpdate_retry" => Runs = 1 /\ EventsOf("remove") # {}
    /\ pc = "ApplyUpdate_ret" =>
          /\ (Runs = 1 /\ Deletions = 0) => ~SignaturePrinted(output)
          /\ Runs = 2 <=> EventsOf("remove") # {}
          /\ Runs = 2 => \A i \in EventsOf("remove") : log[i + 1].op = "run" /\ i + 1 = Len(log)

\* the re-run printed the signature again and ApplyUpdate returned
C3_Witness ==
    /\ pc = "ApplyUpdate_ret"
    /\ Runs = 2
    /\ Deletions = 1
    /\ SignaturePrinted(output)

\* C4: ApplyUpdate returns nil exactly when its last step was an installer run
\* that exited with status 0 and printed the success marker
C4_SuccessNeedsExitAndMarker ==
    pc = "ApplyUpdate_ret" =>
        (ret.err = NoErr <=>
            /\ Len(log) > 0
            /\ log[Len(log)].op = "run"
            /\ exit = 0
            /\ SuccessPrinted(output))

\* the recovery re-run exited with status 0 but did not print the marker
C4_Witness ==
    /\ pc = "ApplyUpdate_ret"
    /\ Runs = 2
    /\ exit = 0
    /\ ~SuccessPrinted(output)
    /\ ret.err # NoErr

\* the events of the cycle with operation op
CycleEventsOf(op) == {i \in 1..Len(calls) : calls[i].op = op}

\* the calls of fn in the cycle
CallsOf(fn) == {i \in CycleEventsOf("call") : calls[i].arg = fn}

\* the stage the cycle called last
LastCall == CHOOSE i \in CycleEventsOf("call") : \A j \in CycleEventsOf("call") : j <= i

\* the keys GetPodOwner resolved in the restart stage
ResolvedOwners == {log[i].arg : i \in EventsOf("GetPodOwner")}

\* handleUpdateFailure reported the retries as exhausted
Exhausted == Len(ret.err) > 0 /\ ret.err[1] = "update failed after MaxRetries attempts"

\* C5 as stated: when the restart stage returns, the number of restartWorkload
\* dispatches equals the number of distinct resolved owners
C5_DispatchesEqualDistinctOwners ==
    pc = "restartPods_ret" =>
        Cardinality(EventsOf("restartWorkload")) = Cardinality(ResolvedOwners)

\* C6: in one restart stage, after a restart of a workload has succeeded there is
\* no further dispatch for its key, and every later pod that resolves to the key
\* is skipped: the loop goes on to the next pod without calling restartWorkload
C6_RestartedOnceThenSkipped ==
    \A i \in EventsOf("restartWorkload") :
        log[i].flag =>
            /\ log[i].arg \in workloadsRestarted \/ pc = "restartPods_ret"
            /\ \A j \in EventsOf("restartWorkload") : j > i => log[j].arg # log[i].arg
            /\ \A j \in EventsOf("GetPodOwner") :
                  (j > i /\ log[j].arg = log[i].arg) =>
                      /\ log[j].flag
                      /\ IF j = Len(log)
                         THEN pc \in {"restartPods_loop", "restartPods_ret"}
                         ELSE log[j + 1].op \in {"GetPodOwner", "GetPodOwner-failed"}

\* a pod behind ReplicaSet a and a pod of Deployment d resolve to the same key:
\* the second one is skipped after the restart of the first succeeded
C6_Witness ==
    \E i \in EventsOf("restartWorkload"), j \in EventsOf("GetPodOwner") :
        /\ log[i].flag
        /\ j > i
        /\ log[j].arg = log[i].arg
        /\ log[j].flag
        /\ pods[log[j].n] # pods[log[j].n - 1]

\* C7: with maxRetries >= 1 the counter equals the number of consecutive failed
\* attempts of the round; the attempt that makes it maxRetries resets it to zero
\* and is the one reported as exhausted; the failure after that counts as 1
C7_RetryAccounting ==
    maxRetries >= 1 =>
        /\ retryCount = IF pc = "handleUpdateFailure_check" THEN failures
                        ELSE IF failures = maxRetries THEN 0 ELSE failures
        /\ \A i \in CycleEventsOf("retryCount++") :
              /\ calls[i].n <= maxRetries
              /\ calls[i].flag => calls[i].n = 1
        /\ (pc = "Run_ret" /\ CycleEventsOf("retryCount++") # {}) =>
              /\ Exhausted <=> failures = maxRetries
              /\ Exhausted <=> CycleEventsOf("retryCount=0") # {}
              /\ Exhausted => retryCount = 0

\* the failure after an exhausted round has been counted as 1 and returned
C7_Witness ==
    /\ pc = "Run_ret"
    /\ maxRetries >= 2
    /\ retryCount = 1
    /\ ~Exhausted
    /\ \E i \in CycleEventsOf("retryCount++") : calls[i].flag /\ calls[i].n = 1

\* C8 as stated: a cycle that returns a failure has incremented the counter by one
C8_AnyStageFailureCounts ==
    (pc = "Run_ret" /\ ret.err # NoErr) =>
        \E i \in CycleEventsOf("retryCount++") : calls[i].n = calls[1].n + 1

\* C8: a cycle that returns a failure of ApplyUpdate, ValidateUpdate or
\* restartPods has incremented the counter exactly once, by one, after that call
\* and before returning; a cycle that returns a failure of CheckUpdate has left
\* the counter as it was
C8_StageFailureCounts ==
    (pc = "Run_ret" /\ ret.err # NoErr) =>
        IF calls[LastCall].arg = "CheckUpdate"
        THEN /\ CycleEventsOf("retryCount++") = {}
             /\ retryCount = calls[1].n
        ELSE /\ calls[LastCall].arg \in {"ApplyUpdate", "ValidateUpdate", "restartPods"}
             /\ CycleEventsOf("retryCount++") = {LastCall + 1}
             /\ calls[LastCall + 1].n = calls[1].n + 1

\* a failed validation has been counted and returned
C8_Witness ==
    /\ pc = "Run_ret"
    /\ ret.err # NoErr
    /\ calls[LastCall].arg = "ValidateUpdate"
    /\ CycleEventsOf("retryCount++") # {}
    /\ retryCount = calls[1].n + 1

\* C9: a cycle in which ApplyUpdate, ValidateUpdate and restartPods have all
\* succeeded returns nil with the counter at zero
C9_SuccessResetsCounter ==
    (pc = "Run_ret" /\ CallsOf("restartPods") # {} /\ ret.err = NoErr) =>
        /\ retryCount = 0
        /\ calls[Len(calls)] = Ev("retryCount=0", "success", calls[1].n, FALSE)

\* a cycle that started with the counter above zero has succeeded
C9_Witness ==
    /\ pc = "Run_ret"
    /\ CallsOf("restartPods") # {}
    /\ ret.err = NoErr
    /\ calls[1].n > 0
    /\ retryCount = 0

\* C10: a cycle calls CheckUpdate first and each of ApplyUpdate, ValidateUpdate
\* and restartPods at most once; nothing is called after the counter has been
\* incremented; when the incremented counter is below maxRetries the cycle
\* sleeps RetryDelay once and returns the failure
C10_NoRetryWithinCycle ==
    /\ \A fn \in {"ApplyUpdate", "ValidateUpdate", "restartPods"} : Cardinality(CallsOf(fn)) <= 1
    /\ CallsOf("CheckUpdate") \subseteq {1}
    /\ \A i \in CycleEventsOf("retryCount++") : \A j \in CycleEventsOf("call") : j < i
    /\ \A i \in CycleEventsOf("sleep") : i > 1 /\ calls[i - 1].op = "retryCount++"
    /\ pc = "handleUpdateFailure_sleep" => retryCount < maxRetries
    /\ pc = "Run_ret" =>
          \A i \in CycleEventsOf("retryCount++") :
              calls[i].n < maxRetries =>
                  /\ i + 1 = Len(calls)
                  /\ calls[i + 1] = Ev("sleep", "RetryDelay", calls[i].n, FALSE)
                  /\ ret.err # NoErr
                  /\ ~Exhausted

\* a failed attempt below maxRetries has slept and returned
C10_Witness ==
    /\ pc = "Run_ret"
    /\ Len(calls) > 0
    /\ calls[Len(calls)].op = "sleep"
    /\ Cardinality(CallsOf("ApplyUpdate")) = 1
    /\ ret.err # NoErr

\* the cycle has returned after CheckUpdate reported that no update is needed
NothingToDo == pc = "Run_ret" /\ ret.err = NoErr /\ Len(calls) = 1

\* C11 as stated, for the stages that follow a successful apply: while the
\* failure of ValidateUpdate or of the restart stage has been followed neither by
\* a successful cycle nor by the publication of another build, no cycle ends by
\* finding that there is nothing to do: the failed stage is run again
C11_FailedStageReattempted ==
    NothingToDo => failedStage \notin {"ValidateUpdate", "restartPods"}

\* the stages are called in the order CheckUpdate, ApplyUpdate, ValidateUpdate,
\* restartPods, each at most once and none without the one before it
StagesInOrder ==
    /\ \A i \in CycleEventsOf("call") :
          /\ calls[i].arg = "CheckUpdate" => i = 1
          /\ calls[i].arg = "ApplyUpdate" => i = 2 /\ calls[1].arg = "CheckUpdate"
          /\ calls[i].arg = "ValidateUpdate" => i = 3 /\ calls[2].arg = "ApplyUpdate"
          /\ calls[i].arg = "restartPods" => i = 4 /\ calls[3].arg = "ValidateUpdate"
    /\ pc \in {"ApplyUpdate", "clearSteamApps", "ApplyUpdate_retry", "ApplyUpdate_ret"}
          => CallsOf("ApplyUpdate") = {Len(calls)}
    /\ pc \in {"ValidateUpdate", "ValidateUpdate_ret"} => CallsOf("ValidateUpdate") = {Len(calls)}
    /\ pc \in {"restartPods", "restartPods_loop", "restartWorkload", "RestartReplicaSet",
               "RestartReplicaSet_scaleDown", "RestartReplicaSet_sleep",
               "RestartReplicaSet_reget", "RestartReplicaSet_scaleUp", "RestartReplicaSet_ret",
               "restartPods_ret"}
          => CallsOf("restartPods") = {Len(calls)}

\* a stage is entered only from the successful return of the stage before it, and
\* a stage that returned an error is followed by the failure handling or the
\* return of the cycle, without a call
StageEnteredAfterSuccess ==
    /\ (pc' = "ApplyUpdate" /\ pc # "ApplyUpdate")
          => pc = "CheckUpdate_ret" /\ ret = Returns(TRUE, NoErr)
    /\ (pc' = "ValidateUpdate" /\ pc # "ValidateUpdate")
          => pc = "ApplyUpdate_ret" /\ ret.err = NoErr
    /\ (pc' = "restartPods" /\ pc # "restartPods")
          => pc = "ValidateUpdate_ret" /\ ret.err = NoErr
    /\ (/\ pc \in {"CheckUpdate_ret", "ApplyUpdate_ret", "ValidateUpdate_ret", "restartPods_ret"}
        /\ ret.err # NoErr
        /\ pc' # pc)
          => pc' \in {"Run_ret", "handleUpdateFailure"} /\ calls' = calls
    /\ (pc \in {"handleUpdateFailure", "handleUpdateFailure_check", "handleUpdateFailure_sleep"})
          => pc' \in {"handleUpdateFailure", "handleUpdateFailure_check",
                      "handleUpdateFailure_sleep", "Run_ret"}

\* C12: within a cycle ApplyUpdate is entered only after CheckUpdate returned
\* (true, nil), ValidateUpdate only after ApplyUpdate returned nil, restartPods
\* (and with it every dispatch) only after ValidateUpdate returned nil; a stage
\* that fails is followed by no later stage of the cycle
C12_StageOrdering == []StagesInOrder /\ [][StageEnteredAfterSuccess]_vars

\* a restart is being dispatched in a cycle that has called all four stages
C12_Witness ==
    /\ pc = "restartWorkload"
    /\ Len(calls) = 4
    /\ calls[2].arg = "ApplyUpdate"
    /\ calls[3].arg = "ValidateUpdate"

\* C13 as stated: a validation run succeeds exactly on exit status 0 with the
\* success marker, and every other outcome is the "validation reported issues"
\* error
C13_OtherwiseReportedIssues ==
    (pc = "ValidateUpdate_ret" /\ Runs = 1) =>
        /\ ret.err = NoErr <=> (exit = 0 /\ SuccessPrinted(output))
        /\ ret.err # NoErr => ret.err = <<"validation reported issues">>

\* C13: ValidateUpdate writes validate_script.txt with app_update validate and
\* runs it once; it returns nil exactly when the run exits with status 0 and has
\* printed the success marker; a nonzero exit is the "validation failed" error, a
\* zero exit without the marker the "validation reported issues" error, and a
\* script that cannot be written the "failed to create validate script" error
C13_ValidationOutcome ==
    pc = "ValidateUpdate_ret" =>
        IF EventsOf("run") = {}
        THEN /\ EventsOf("write-failed") # {}
             /\ ret.err = <<"failed to create validate script">>
        ELSE /\ Runs = 1
             /\ \A i \in EventsOf("run") : log[i].arg = "validate_script.txt" /\ log[i].flag
             /\ ret.err = NoErr <=> (exit = 0 /\ SuccessPrinted(output))
             /\ exit # 0 => ret.err = <<"validation failed">>
             /\ (exit = 0 /\ ~SuccessPrinted(output)) => ret.err = <<"validation reported issues">>

\* the validation run exited with status 0 without the marker
C13_Witness ==
    /\ pc = "ValidateUpdate_ret"
    /\ Runs = 1
    /\ exit = 0
    /\ ~SuccessPrinted(output)
    /\ ret.err = <<"validation reported issues">>

\* the installation exists and the manifest yields a non-empty build id
LocalBuildIdKnown ==
    /\ gameDir = "exists" /\ srcdsRun = "exists"
    /\ \E x \in BuildIds : manifest = FileWith(ManifestFor(x))

\* the remote query of the call in progress failed: the script could not be
\* written, the tool exited with a nonzero status, or its output holds no build id
QueryFailed ==
    \/ EventsOf("write-failed") # {}
    \/ /\ Runs = 1
       /\ \/ exit # 0
          \/ output \notin {AppInfoFor(y) : y \in BuildIds} \cup {AppInfoBranchOnly(y) : y \in BuildIds}

\* CheckUpdate answers a failed query with an error, and the cycle that got an
\* error from CheckUpdate has called nothing else
QueryFailureIsError ==
    /\ (pc = "CheckUpdate_ret" /\ LocalBuildIdKnown /\ QueryFailed) =>
          /\ ~ret.needed
          /\ Len(ret.err) = 2
          /\ ret.err[1] = "failed to get latest build ID"
          /\ ret.err[2] \in {"failed to write app info script", "failed to query app info",
                             "buildid not found in app_info output"}
    /\ (pc = "Run_ret" /\ Len(ret.err) > 0 /\ ret.err[1] = "failed to check for updates") =>
          Len(calls) = 1

\* the step after CheckUpdate returned an error is the return of the cycle with
\* that error
CheckErrorEndsCycle ==
    (pc = "CheckUpdate_ret" /\ ret.err # NoErr /\ pc' # pc) =>
        /\ pc' = "Run_ret"
        /\ ret' = Returns(FALSE, Wrap("failed to check for updates", ret.err))
        /\ calls' = calls

\* C14: with the installation present and a local build id, a remote query that
\* fails makes CheckUpdate return (false, error), never a result without error,
\* and the cycle returns that error without calling ApplyUpdate
C14_QueryFailureNoApply == []QueryFailureIsError /\ [][CheckErrorEndsCycle]_vars

\* a cycle has returned the error of a query whose output held no build id
C14_Witness ==
    /\ pc = "Run_ret"
    /\ ret.err = <<"failed to check for updates", "failed to get latest build ID",
                   "buildid not found in app_info output">>
    /\ Len(calls) = 1

\* C15 as stated: with the installation present and the manifest missing or
\* unreadable, CheckUpdate returns (true, nil) without a remote query
C15_ManifestPermissive ==
    (/\ pc = "CheckUpdate_ret"
     /\ gameDir = "exists" /\ srcdsRun = "exists"
     /\ manifest \in {AbsentFile, UnreadableFile})
    => ret = Returns(TRUE, NoErr) /\ Runs = 0

\* a manifest whose buildid line holds the key without a value
KeyOnlyManifest ==
    JoinLines(<< <<Q, "A", "p", "p", "S", "t", "a", "t", "e", Q>>,
                 <<"{">>,
                 <<"\t">> \o BuildIdKey,
                 <<"}">> >>)

\* what getInstalledBuildID returns for a manifest without a build-id field
BuildIdNotFound == [id |-> <<>>, err |-> <<"buildid not found in manifest">>]

\* with a manifest that holds no build-id field CheckUpdate returns the error
\* of getInstalledBuildID, which differs from the result for a missing manifest
MalformedManifestIsError ==
    (/\ pc = "CheckUpdate_ret"
     /\ gameDir = "exists" /\ srcdsRun = "exists"
     /\ manifest = FileWith(MalformedManifest))
    => /\ getInstalledBuildID(manifest) = BuildIdNotFound
       /\ getInstalledBuildID(FileWith(KeyOnlyManifest)) = BuildIdNotFound
       /\ getInstalledBuildID(AbsentFile) = [id |-> <<>>, err |-> NoErr]
       /\ ret = Returns(FALSE, Wrap("failed to get installed build ID", BuildIdNotFound.err))
       /\ Runs = 0

\* C16: a manifest that is present without a locatable build-id field makes
\* getInstalledBuildID return "buildid not found in manifest" (a missing manifest
\* gives the empty id and nil); CheckUpdate returns (false, that error) without a
\* remote query, and the cycle returns it without calling ApplyUpdate
C16_MalformedManifestSurfaced == []MalformedManifestIsError /\ [][CheckErrorEndsCycle]_vars

\* a cycle has returned the error of a manifest without build id
C16_Witness ==
    /\ pc = "Run_ret"
    /\ manifest = FileWith(MalformedManifest)
    /\ ret.err = <<"failed to check for updates", "failed to get installed build ID",
                   "buildid not found in manifest">>
    /\ Len(calls) = 1

\* C17: with the game directory or srcds_run missing, CheckUpdate returns
\* (true, nil) and has neither read the manifest nor written or run a script
C17_AbsentInstallNeedsUpdate ==
    /\ (pc = "CheckUpdate_ret" /\ (gameDir = "missing" \/ srcdsRun = "missing")) =>
          ret = Returns(TRUE, NoErr) /\ log = <<>>
    /\ pc = "getLatestBuildID" => gameDir = "exists" /\ srcdsRun = "exists"

\* the marker file is missing although the manifest holds the published build
C17_Witness ==
    /\ pc = "CheckUpdate_ret"
    /\ gameDir = "exists"
    /\ srcdsRun = "missing"
    /\ manifest = FileWith(ManifestFor(published))
    /\ ret = Returns(TRUE, NoErr)

\* what the resolver has to return for the references refs when the lookup of a
\* ReplicaSet succeeds (getOk) or fails
OwnerAsSpecified(refs, getOk, o) ==
    /\ o.err = NoErr
    /\ refs[1].kind # "ReplicaSet" =>
          /\ Ref(o.kind, o.name) = refs[1]
          /\ o.lookups = 0
    /\ refs[1].kind = "ReplicaSet" =>
          /\ o.lookups = 1
          /\ Ref(o.kind, o.name) =
                IF getOk /\ rsOwners[refs[1].name] # <<>>
                THEN rsOwners[refs[1].name][1]
                ELSE refs[1]

\* C18: for a pod with owner references GetPodOwner returns the first one unless
\* it is a ReplicaSet; for a ReplicaSet it issues one lookup and returns the first
\* owner reference of the ReplicaSet when the lookup succeeds and there is one,
\* and the ReplicaSet itself otherwise, without error and whatever the owner of
\* that owner is; the keys the restart stage works with are these
C18_OwnerFlattenedOneLevel ==
    /\ (pc = "restartPods_loop" /\ idx <= Len(pods) /\ pods[idx] # <<>>) =>
          \A getOk \in BOOLEAN : OwnerAsSpecified(pods[idx], getOk, GetPodOwner(pods[idx], getOk))
    /\ \A i \in EventsOf("GetPodOwner") :
          \E getOk \in BOOLEAN :
             LET first == pods[log[i].n][1]
                 expected == IF first.kind = "ReplicaSet" /\ getOk /\ rsOwners[first.name] # <<>>
                             THEN rsOwners[first.name][1] ELSE first
             IN log[i].arg = workloadKey(expected.kind, expected.name)

\* a pod of ReplicaSet b, which is owned by ReplicaSet a, itself owned by
\* Deployment d, has been resolved to ReplicaSet a
C18_Witness ==
    /\ rsOwners["b"] = <<Ref("ReplicaSet", "a")>>
    /\ rsOwners["a"] = <<Ref("Deployment", "d")>>
    /\ \E i \in EventsOf("GetPodOwner") :
          /\ pods[log[i].n] = <<Ref("ReplicaSet", "b")>>
          /\ log[i].arg = workloadKey("ReplicaSet", "a")

\* C19: GetPodOwner on a pod without owner references returns an error and the
\* empty kind and name; the restart stage logs the failure and goes on with the
\* next pod without a dispatch, and it ends only after the last pod
C19_UnownedPodSkipped ==
    /\ \A getOk \in BOOLEAN :
          LET o == GetPodOwner(<<>>, getOk)
          IN o.err # NoErr /\ o.kind = "" /\ o.name = "" /\ o.lookups = 0
    /\ \A i \in EventsOf("GetPodOwner-failed") :
          /\ pods[log[i].n] = <<>>
          /\ IF i = Len(log)
             THEN pc \in {"restartPods_loop", "restartPods_ret"} /\ idx = log[i].n + 1
             ELSE /\ log[i + 1].op \in {"GetPodOwner", "GetPodOwner-failed"}
                  /\ log[i + 1].n = log[i].n + 1
    /\ \A n \in 1..Len(pods) :
          (n < idx /\ pods[n] = <<>>) => \E i \in EventsOf("GetPodOwner-failed") : log[i].n = n
    /\ (pc = "restartPods_ret" /\ pods # <<>>) => idx = Len(pods) + 1

\* after a pod without owner a later pod's workload has been restarted
C19_Witness ==
    \E i \in EventsOf("GetPodOwner-failed"), j \in EventsOf("restartWorkload") :
        j > i /\ log[j].flag

\* the kinds restartWorkload knows
SupportedKinds == {"Deployment", "StatefulSet", "DaemonSet", "ReplicaSet"}

\* the keys of the workloads of a supported kind
SupportedKeys ==
    {workloadKey(k, n) : k \in SupportedKinds, n \in {"a", "b", "d", "j", "m", "r", "s"}}

\* C20: a dispatch for a workload whose kind is none of Deployment, StatefulSet,
\* DaemonSet and ReplicaSet fails with "unsupported workload kind" before any
\* cluster API call, and the workload is not added to the restarted ones; that
\* error is returned for no workload of a supported kind
C20_UnsupportedKindRejected ==
    /\ \A i \in EventsOf("restartWorkload") :
          log[i].arg \notin SupportedKeys =>
              /\ ~log[i].flag
              /\ log[i].n = 0
              /\ i > 1
              /\ log[i - 1] = Ev("error", "unsupported workload kind", 0, FALSE)
              /\ log[i].arg \notin workloadsRestarted
    /\ \A i \in EventsOf("error") :
          log[i].arg = "unsupported workload kind" => log[i + 1].arg \notin SupportedKeys
    /\ workloadsRestarted \subseteq SupportedKeys
    /\ (pc = "restartWorkload" /\ owner.kind \notin SupportedKinds) => apiCalls = 0
    /\ pc \in {"RestartReplicaSet", "RestartReplicaSet_scaleDown", "RestartReplicaSet_sleep",
               "RestartReplicaSet_reget", "RestartReplicaSet_scaleUp", "RestartReplicaSet_ret"}
          => owner.kind = "ReplicaSet"

\* ReplicaSet b was flattened to its owner Rollout r, whose restart was rejected
C20_Witness ==
    \E i \in EventsOf("restartWorkload") :
        /\ log[i].arg = workloadKey("Rollout", "r")
        /\ ~log[i].flag
        /\ log[i - 1].op = "error"
        /\ log[i - 2].op = "GetPodOwner"
        /\ pods[log[i - 2].n] = <<Ref("ReplicaSet", "b")>>

\* C21 as stated: the restart stage fails only when no workload was restarted,
\* succeeds when at least one was, and a workload whose restart failed is not
\* dispatched again later in the same stage
C21_PartialSuccessNoRetry ==
    /\ pc = "restartPods_ret" =>
          /\ ret.err # NoErr => \A i \in EventsOf("restartWorkload") : ~log[i].flag
          /\ (\E i \in EventsOf("restartWorkload") : log[i].flag) => ret.err = NoErr
    /\ \A i, j \in EventsOf("restartWorkload") :
          (i < j /\ ~log[i].flag) => log[j].arg # log[i].arg

\* the successful returns of RestartReplicaSet in the restart stage
ScaleCycles ==
    {i \in EventsOf("restartWorkload") : log[i].flag /\ log[i].n = 4}

\* C22: a RestartReplicaSet whose API calls all succeed has issued, in this
\* order, a read, a write of zero replicas, the wait, a second read and a write
\* of the count the first read has seen; when it returns the ReplicaSet has that
\* count, whatever the second read has seen
C22_RestoreUsesFirstRead ==
    \A i \in ScaleCycles :
        /\ i > 5
        /\ LET key == log[i].arg
               first == log[i - 5]
           IN /\ first.op = "rs.Get" /\ first.arg = key
              /\ log[i - 4] = Ev("rs.Update", key, 0, FALSE)
              /\ log[i - 3].op = "time.Sleep" /\ log[i - 3].arg = key
              /\ log[i - 2].op = "rs.Get" /\ log[i - 2].arg = key
              /\ log[i - 1] = Ev("rs.Update", key, first.n, FALSE)
              /\ (i = Len(log) /\ pc = "restartPods_loop" /\ idx = log[i - 6].n + 1)
                    => replicas[owner.name] = first.n

\* the concurrent actor has changed the count during the wait: the second read
\* saw neither zero nor the original count, and the call has just returned
C22_Witness ==
    \E i \in ScaleCycles :
        /\ i = Len(log)
        /\ pc = "restartPods_loop"
        /\ log[i - 2].op = "rs.Get"
        /\ log[i - 2].n \notin {0, log[i - 5].n}
        /\ replicas[owner.name] = log[i - 5].n

\* C25 as stated: a wait of RestartReplicaSet that ends with the context
\* cancelled has been cut short, it has not lasted the whole grace period
C25_GraceWaitInterrupted ==
    \A i \in EventsOf("time.Sleep") : log[i].flag => log[i].n < GraceSeconds

\* no step removes the game directory or the marker file, and the manifest is
\* removed only by the recovery of ApplyUpdate
OnlyRecoveryDeletes ==
    /\ gameDir = "exists" => gameDir' = "exists"
    /\ srcdsRun = "exists" => srcdsRun' = "exists"
    /\ (manifest.stat = "exists" /\ manifest'.stat # "exists") => pc = "clearSteamApps"

\* the steps of CheckUpdate leave the installation as it is
CheckUpdateLeavesDisk ==
    pc \in {"CheckUpdate", "getLatestBuildID"} => UNCHANGED diskVars

\* the step of ValidateUpdate leaves the installation as it is
ValidateUpdateLeavesDisk ==
    pc = "ValidateUpdate" => UNCHANGED diskVars

\* C23 as stated: the engine deletes nothing of the installation but the metadata
\* directory in the recovery of ApplyUpdate, and CheckUpdate and ValidateUpdate
\* leave the installed flag, the manifest and the installed build id unchanged
C23_EngineFrame ==
    [][OnlyRecoveryDeletes /\ CheckUpdateLeavesDisk /\ ValidateUpdateLeavesDisk]_vars

\* performUpdateCheck is entered at most once before it returns
OneCheckPerCycle == Cardinality(CallsOf("CheckUpdate")) <= 1

\* a cycle starts only from the loop of Run, after the cycle before it has
\* returned; a tick that fires leaves the goroutine of Run where it is
CycleStartsFromLoop ==
    /\ (CallsOf("CheckUpdate")' # {} /\ calls' # calls /\ Len(calls') = 1)
          => pc \in {"Run", "select"}
    /\ (pc' = "CheckUpdate" /\ pc # "CheckUpdate") => pc \in {"Run", "select"}
    /\ (tickBuffered' /\ ~tickBuffered) => UNCHANGED <<pc, log, calls, ret>>

\* C24: at most one update cycle is in flight: a tick that fires while a cycle
\* runs, its retry-delay wait included, waits in the ticker's channel and starts
\* no second cycle; the next cycle starts only after the cycle has returned
C24_OneCycleInFlight == []OneCheckPerCycle /\ [][CycleStartsFromLoop]_vars

\* the ticker has fired while the cycle is in its retry-delay wait
C24_Witness ==
    /\ pc = "handleUpdateFailure_sleep"
    /\ tickBuffered
    /\ CallsOf("CheckUpdate") = {1}

\* the step is the end of a cycle whose apply, validation and restart succeeded
FullSuccessStep == pc = "restartPods_ret" /\ ret.err = NoErr

\* the step is the one of handleUpdateFailure that finds the incremented counter
\* at MaxRetries
ExhaustionStep == pc = "handleUpdateFailure_check" /\ retryCount >= maxRetries

\* the step takes the retry counter from a non-zero value to zero
CounterZeroed == retryCount > 0 /\ retryCount' = 0

\* C26 as stated: the retry counter goes from a non-zero value back to zero only
\* at the end of an end-to-end successful cycle
C26_ResetOnlyOnSuccess == [][CounterZeroed => FullSuccessStep]_vars

\* C26: the retry counter goes from a non-zero value back to zero only at the end
\* of an end-to-end successful cycle, or in handleUpdateFailure when the failure
\* has brought it to MaxRetries; a failure below the maximum leaves it incremented
C26_ResetOnSuccessOrExhaustion ==
    [][/\ CounterZeroed => (FullSuccessStep \/ ExhaustionStep)
       /\ (pc = "handleUpdateFailure_sleep" /\ pc' # pc) => retryCount' = retryCount
       /\ (pc = "handleUpdateFailure_check" /\ ~ExhaustionStep) => retryCount' = retryCount]_vars

\* a cycle has succeeded end to end with earlier failures counted: its reset took
\* the counter from a non-zero value to zero
C26_Witness ==
    \E i \in CycleEventsOf("retryCount=0") :
        /\ calls[i].arg = "success"
        /\ calls[i].n > 0
        /\ retryCount = 0

\* C27 as stated: within a round of consecutive failures every wait of
\* handleUpdateFailure is longer than the wait before it
C27_DelayGrowsWithRetries ==
    \A i, j \in DOMAIN delays : i < j => delays[i] < delays[j]

\* C28 as stated: isGameInstalled is true exactly when the game directory exists
\* and the marker file exists in it, and false for every other outcome of os.Stat
C28_InstalledIffBothExist ==
    isGameInstalled(gameDir, srcdsRun) <=> (gameDir = "exists" /\ srcdsRun = "exists")

RECURSIVE QuotedFrom(_, _, _, _, _)
QuotedFrom(s, i, inQuotes, cur, acc) ==
    IF i > Len(s) THEN acc
    ELSE IF s[i] = Q
         THEN (IF inQuotes THEN QuotedFrom(s, i + 1, FALSE, <<>>, Append(acc, cur))
               ELSE QuotedFrom(s, i + 1, TRUE, <<>>, acc))
    ELSE QuotedFrom(s, i + 1, inQuotes, IF inQuotes THEN Append(cur, s[i]) ELSE cur, acc)

\* the quoted tokens of a line, without their quotes, in order
QuotedTokens(line) == QuotedFrom(line, 1, FALSE, <<>>, <<>>)

\* the line is a well-formed build id line: "buildid", white space, one quoted
\* value without white space in it, and nothing but white space around them
WellFormedBuildIdLine(line) ==
    LET toks == QuotedTokens(line)
        body == SelectSeq(line, LAMBDA c : ~IsSpace(c))
    IN /\ Len(toks) = 2
       /\ <<Q>> \o toks[1] \o <<Q>> = BuildIdKey
       /\ body = BuildIdKey \o <<Q>> \o toks[2] \o <<Q>>
       /\ \E i \in 1..Len(line) : HasPrefixAt(line, BuildIdKey, i) /\ i + Len(BuildIdKey) <= Len(line)
                                  /\ IsSpace(line[i + Len(BuildIdKey)])

\* the manifest holds a well-formed build id line and no other line with the key
WellFormedManifest(text) ==
    LET lines == SplitLines(text)
        keyed == {i \in 1..Len(lines) : Contains(lines[i], BuildIdKey)}
    IN Cardinality(keyed) = 1 /\ \A i \in keyed : WellFormedBuildIdLine(lines[i])

\* the X of the "buildid" "X" line of a well-formed manifest
WrittenBuildId(text) ==
    LET lines == SplitLines(text)
    IN QuotedTokens(lines[CHOOSE i \in 1..Len(lines) : Contains(lines[i], BuildIdKey)])[2]

\* C29: on a manifest with a well-formed "buildid" "X" line the reader returns
\* exactly X and no error, whatever the white space of the line and whatever the
\* other lines are; CheckUpdate goes on to the remote query with X and reports no
\* failure to get the installed build id
C29_InstalledBuildIdRead ==
    (manifest.stat = "exists" /\ WellFormedManifest(manifest.data)) =>
        /\ getInstalledBuildID(manifest) = [id |-> WrittenBuildId(manifest.data), err |-> NoErr]
        /\ pc = "getLatestBuildID" => installedBuildID = WrittenBuildId(manifest.data)
        /\ (pc = "CheckUpdate_ret" /\ ret.err # NoErr) =>
              ret.err[1] # "failed to get installed build ID"

\* CheckUpdate has read build 1002 from a manifest whose build id line is
\* indented with spaces and ends in a carriage return, between other lines
C29_Witness ==
    /\ pc = "getLatestBuildID"
    /\ WellFormedManifest(manifest.data)
    /\ installedBuildID = <<"1", "0", "0", "2">>
    /\ \E b \in LinesBefore \ {<<>>}, a \in LinesAfter \ {<<>>} :
          manifest = FileWith(ManifestWith(b, <<" ", " ">>, <<" ">>, <<"1", "0", "0", "2">>,
                                           <<"\r">>, a))

\* the lines of the section of the branch "public": from the line after the one
\* that names the branch to the line before the next closing brace
PublicSection(lines) ==
    LET heads == {i \in 1..Len(lines) : Contains(lines[i], PublicKey)}
    IN IF heads = {} THEN {}
       ELSE LET p == CHOOSE i \in heads : \A j \in heads : i <= j
                closes == {j \in (p + 1)..Len(lines) : Contains(lines[j], <<"}">>)}
                end == IF closes = {} THEN Len(lines) + 1
                       ELSE CHOOSE j \in closes : \A k \in closes : j <= k
            IN (p + 1)..(end - 1)

\* the build id lines of the section of the branch "public"
PublicBuildIdLines(lines) ==
    {i \in PublicSection(lines) :
        Len(QuotedTokens(lines[i])) >= 2
        /\ <<Q>> \o QuotedTokens(lines[i])[1] \o <<Q>> = BuildIdKey}

\* the first build id of the section of the branch "public"
FirstPublicBuildId(lines) ==
    QuotedTokens(lines[CHOOSE i \in PublicBuildIdLines(lines) :
                          \A j \in PublicBuildIdLines(lines) : i <= j])[2]

\* C30 as stated: when the output of the remote query holds a section of the
\* branch "public" with a build id line, the query returns the first build id
\* of that section
C30_PublicBuildIdReturned ==
    (pc = "CheckUpdate_ret" /\ Runs = 1 /\ exit = 0
        /\ PublicBuildIdLines(SplitLines(output)) # {}) =>
        parseLatestBuildID(exit, output) =
            [id |-> FirstPublicBuildId(SplitLines(output)), err |-> NoErr]

\* the error of a deletion that failed (lines 115-117, 212-214)
ClearFailed ==
    <<"failed to clear steamapps for recovery", "failed to remove steamapps directory">>

\* ApplyUpdate returned after one run whose output matches the signature
ReturnedWithoutRerun == pc = "ApplyUpdate_ret" /\ Runs = 1 /\ SignaturePrinted(output)

\* C31 as stated: ApplyUpdate never returns after a single run whose output
\* matches the signature; the deletion and the re-run come first
C31_RerunBeforeAnyError == ~ReturnedWithoutRerun

\* a return after a single run that printed the signature carries the error of
\* the failed deletion, never an error of the first run
OnlyClearFailureSkipsRerun ==
    ReturnedWithoutRerun =>
        /\ ret.err = ClearFailed
        /\ EventsOf("remove-failed") # {} /\ EventsOf("remove") = {}

\* the next step of the call: from the detection it goes to the re-run without
\* setting a result, or returns the error of the failed deletion; the step after
\* a deletion is the re-run of the apply script
DetectionLeadsToRerun ==
    pc' # pc =>
    /\ pc = "clearSteamApps" =>
          \/ /\ pc' = "ApplyUpdate_retry"
             /\ ret' = ret
             /\ log' = Append(log, Ev("remove", "steamapps", 0, FALSE))
          \/ /\ pc' = "ApplyUpdate_ret"
             /\ ret'.err = ClearFailed
    /\ pc = "ApplyUpdate_retry" =>
          /\ pc' = "ApplyUpdate_ret"
          /\ Len(log') = Len(log) + 1
          /\ log'[Len(log')].op = "run" /\ log'[Len(log')].arg = "tf_update.txt"

\* C31: when the first run's output matches the signature, ApplyUpdate attempts
\* the deletion of steamapps once; when the deletion succeeds it re-runs the
\* apply script before it returns anything, whatever the first run's exit status
\* was; the only error returned between the detection and the re-run is the
\* error of a deletion that failed
C31_RerunBeforeErrorUnlessClearFails ==
    [](OnlyClearFailureSkipsRerun /\ (pc = "clearSteamApps" => Deletions = 0))
        /\ [][DetectionLeadsToRerun]_vars

\* the first run printed the signature, steamapps was deleted, the re-run failed
\* and its error is the first one the call returns
C31_Witness ==
    /\ pc = "ApplyUpdate_ret"
    /\ Runs = 2
    /\ EventsOf("remove") # {}
    /\ ret.err = <<"steamcmd update failed after 0x6 recovery">>

\* the texts a logStream of stream s can hand over
StreamTexts(s) == {DropCR(ToolLines[s][i]) : i \in 1..Len(ToolLines[s])}

\* the lines of a buffer that are complete, i.e. followed by a line feed
WholeLines(buf) == LET ls == SplitLines(buf) IN SubSeq(ls, 1, Len(ls) - 1)

\* what follows the last line feed of a buffer
OpenLine(buf) == LET ls == SplitLines(buf) IN ls[Len(ls)]

\* the complete lines of a buffer that stream s can have contributed
LinesFrom(buf, s) == SelectSeq(WholeLines(buf), LAMBDA l : l \in StreamTexts(s))

\* the lines the installer has written to stream s, as the scanner returns them
Written(s) == [i \in 1..Len(wrote[s]) |-> DropCR(wrote[s][i])]

\* runSteamCMD has returned from a process it started
RunReturned == pc = "runSteamCMD_ret" /\ drainPc["stdout"] # "none"

\* runSteamCMD returns only after the process has exited and both logStream
\* goroutines have ended
ReturnsAfterExitAndDrains ==
    RunReturned => toolStatus # Running /\ \A s \in Streams : drainPc[s] = "done"

\* the returned buffer holds every line the installer wrote, of each stream
NothingLost ==
    RunReturned => \A s \in Streams : LinesFrom(output, s) = Written(s)

\* C32: when runSteamCMD returns, the process has exited, both logStream
\* goroutines have ended, and the returned buffer holds every line the process
\* wrote to standard output and to standard error
C32_CompleteCapture == ReturnsAfterExitAndDrains /\ NothingLost

\* a logStream is between combinedMu.Lock() and combinedMu.Unlock()
InCritical(s) == drainPc[s] \in {"WriteString", "WriteByte", "Unlock"}

\* the buffer is made of whole lines, but for the line of the logStream that is
\* between its WriteString and its WriteByte
WholeLinesOnly ==
    /\ \A i \in 1..Len(WholeLines(combined)) :
          \E s \in Streams : WholeLines(combined)[i] \in StreamTexts(s)
    /\ IF \E s \in Streams : drainPc[s] = "WriteByte"
       THEN \E s \in Streams : drainPc[s] = "WriteByte" /\ OpenLine(combined) = drainLine[s]
       ELSE OpenLine(combined) = <<>>

\* the lines of each stream are in the buffer in the order they were written
StreamOrderKept ==
    \A s \in Streams :
        LET got == LinesFrom(combined, s) IN
        /\ Len(got) <= Len(Written(s))
        /\ got = SubSeq(Written(s), 1, Len(got))

\* C33: the two logStream goroutines are never both between Lock and Unlock, the
\* buffer is always a sequence of whole lines (each with its line feed, the line
\* being appended by the holder of the mutex excepted), and the lines of each
\* stream are in it in the order the process wrote them
C33_AppendsAreAtomic ==
    /\ ~(InCritical("stdout") /\ InCritical("stderr"))
    /\ \A s \in Streams : InCritical(s) => combinedMu = s
    /\ WholeLinesOnly
    /\ StreamOrderKept

\* both streams have lines in the buffer, a line of standard error between two
\* lines of standard output, while the other logStream waits for the mutex
C33_Witness ==
    /\ Len(LinesFrom(combined, "stdout")) = 2
    /\ Len(WholeLines(combined)) = 3
    /\ WholeLines(combined)[2] \in StreamTexts("stderr")
    /\ InCritical("stdout") /\ drainPc["stderr"] = "Lock"

Max(a, b) == IF a >= b THEN a ELSE b

\* Run is not inside performUpdateCheck: before the initial check, between a
\* return of performUpdateCheck and the next tick, or after Run has returned
NoCycleInFlight == pc \in {"Run", "Run_ret", "select", "stopped"}

\* C34: the retry counter is never negative; while no cycle is in flight it is at
\* most max(MaxRetries - 1, 0); inside a cycle it is at most max(MaxRetries, 1)
C34_RetryCounterBounds ==
    /\ retryCount >= 0
    /\ NoCycleInFlight => retryCount <= Max(maxRetries - 1, 0)
    /\ retryCount <= Max(maxRetries, 1)

\* the loop waits for the next tick with the counter at MaxRetries - 1, after
\* MaxRetries - 1 failed cycles in a row
C34_Witness ==
    /\ pc = "select"
    /\ maxRetries >= 2
    /\ retryCount = maxRetries - 1
    /\ failures = maxRetries - 1

\* the reads of RestartReplicaSet that follow its wait
SecondReads == {i \in EventsOf("rs.Get") : i > 1 /\ log[i - 1].op = "time.Sleep"}

\* nobody but RestartReplicaSet has written a replica count during the stage:
\* every read after a scale-down has seen zero replicas
NoExternalChange == \A i \in SecondReads : log[i].n = 0

\* the first read of ReplicaSet name in the stage: it holds the count the
\* ReplicaSet had when the stage began, when nobody else has written it
FirstReadOf(name) ==
    LET reads == {i \in EventsOf("rs.Get") : log[i].arg = workloadKey("ReplicaSet", name)}
    IN IF reads = {} THEN 0 ELSE CHOOSE i \in reads : \A j \in reads : i <= j

\* C35: when restartPods returns nil and nobody else has written a replica
\* count, every ReplicaSet that RestartReplicaSet has read has the replica count
\* it had when the stage began, also when it was dispatched more than once
C35_ReplicasRestored ==
    (pc = "restartPods_ret" /\ ret.err = NoErr /\ NoExternalChange) =>
        \A name \in RSNames :
            FirstReadOf(name) # 0 => replicas[name] = log[FirstReadOf(name)].n

\* C36 as stated: when ApplyUpdate returns after a run of the installer, steamapps
\* has been deleted and the script re-run exactly when the first output matched
\* the signature
C36_DeletedAndRerunIffSignature ==
    (pc = "ApplyUpdate_ret" /\ Runs >= 1) =>
        \/ Runs = 2 /\ EventsOf("remove") # {}
        \/ Runs = 1 /\ Deletions = 0 /\ ~SignaturePrinted(output)

\* the first run of ApplyUpdate: the recovery is entered exactly when the output
\* matches the signature, whatever the exit status and the rest of the output
DecisionByText ==
    (pc = "ApplyUpdate" /\ Len(log') > Len(log) /\ log'[Len(log')].op = "run") =>
        /\ pc' = "clearSteamApps" <=> SignaturePrinted(output')
        /\ pc' = "clearSteamApps" => ret' = ret

\* the re-run of ApplyUpdate: the result is nil exactly when the re-run exited
\* with status 0 and printed the success marker
RerunDecides ==
    (pc = "ApplyUpdate_retry" /\ pc' # pc) =>
        /\ pc' = "ApplyUpdate_ret"
        /\ ret'.err = NoErr <=> (exit' = 0 /\ SuccessPrinted(output'))

\* a call that returned after one run did not attempt the deletion exactly when
\* the output of that run does not match the signature; it attempted it once and
\* the deletion failed otherwise
SingleRunReturn ==
    (pc = "ApplyUpdate_ret" /\ Runs = 1) =>
        /\ Deletions = 0 <=> ~SignaturePrinted(output)
        /\ Deletions # 0 => EventsOf("remove-failed") # {} /\ ret.err = ClearFailed

\* C36: the recovery of ApplyUpdate is attempted exactly when the first output
\* matches the signature, whatever the exit status of the first run and also when
\* that output holds the success marker; when the deletion succeeds the script is
\* re-run and the re-run alone decides the result; when the deletion fails the
\* call returns that error without a re-run
C36_RecoveryDecidedByText ==
    [](SingleRunReturn /\ (pc = "ApplyUpdate_retry" => EventsOf("remove") # {} /\ Runs = 1))
        /\ [][DecisionByText /\ RerunDecides]_vars

\* the first run exited with status 0 and printed the success marker and the
\* signature: steamapps has been deleted and the re-run is next
C36_Witness ==
    /\ pc = "ApplyUpdate_retry"
    /\ exit = 0
    /\ SuccessPrinted(output) /\ SignaturePrinted(output)
    /\ manifest = AbsentFile

\* the failure handled last was one of ApplyUpdate and the manifest is gone: on
\* an installation that had a manifest, the recovery of that call has deleted
\* steamapps and its re-run has not brought the manifest back
AfterFailedRecovery == failedStage = "ApplyUpdate" /\ manifest = AbsentFile

\* nothing but an installer run on an app_update script brings the manifest back
ManifestStaysAbsent ==
    (manifest = AbsentFile /\ pc \notin {"ApplyUpdate", "ApplyUpdate_retry", "ValidateUpdate"})
        => manifest' = AbsentFile

\* the cycle goes on to ApplyUpdate when such a CheckUpdate has returned
ApplyAttemptedAgain ==
    (pc = "CheckUpdate_ret" /\ AfterFailedRecovery /\ isGameInstalled(gameDir, srcdsRun)
        /\ pc' # pc) => pc' = "ApplyUpdate"

\* CheckUpdate on an installed game after a failed recovery: update needed, no
\* error, and the installer has not been run for the remote build id
NeededWithoutQuery ==
    (pc = "CheckUpdate_ret" /\ AfterFailedRecovery /\ isGameInstalled(gameDir, srcdsRun)) =>
        /\ ret = Returns(TRUE, NoErr)
        /\ Runs = 0
        /\ EventsOf("write") = {} /\ EventsOf("write-failed") = {}

\* C37: after an ApplyUpdate whose recovery deleted steamapps and whose re-run
\* failed, the manifest stays absent until an installer run, the next CheckUpdate
\* on the still installed game returns (true, nil) without asking for the remote
\* build id, and the cycle calls ApplyUpdate again
C37_FailedRecoveryReapplied ==
    []NeededWithoutQuery /\ [][ManifestStaysAbsent /\ ApplyAttemptedAgain]_vars

\* the CheckUpdate of the cycle after a failed recovery has returned (true, nil)
\* without a run of the installer; the counter holds the failure
C37_Witness ==
    /\ pc = "CheckUpdate_ret"
    /\ AfterFailedRecovery
    /\ isGameInstalled(gameDir, srcdsRun)
    /\ retryCount = 1
    /\ ret = Returns(TRUE, NoErr)
    /\ Runs = 0

\* restartPods has returned and holds an empty list of pods: the selector has
\* matched nothing, or the listing has failed
NoPodsListed == pc = "restartPods_ret" /\ pods = <<>>

\* with no pod listed restartPods dispatches nothing and returns nil, or the
\* error of the listing; never the error of a stage that restarted nothing
EmptyListIsSuccess ==
    NoPodsListed =>
        /\ EventsOf("restartWorkload") = {}
        /\ ret.err \in {NoErr, <<"failed to list pods", "failed to list pods">>}

\* the cycle whose restart stage found no pod ends as a full success: the
\* counter is set to zero and performUpdateCheck returns nil
EmptyListResetsCounter ==
    (NoPodsListed /\ ret.err = NoErr /\ pc' # pc) =>
        /\ retryCount' = 0
        /\ pc' = "Run_ret"
        /\ ret'.err = NoErr
        /\ calls' = Append(calls, Ev("retryCount=0", "success", retryCount, FALSE))

\* C38: when the selector matches no pod, restartPods restarts nothing and
\* returns nil, not the error of a stage that restarted no workload, and the
\* cycle, whose ApplyUpdate and ValidateUpdate succeeded, ends as a full success
\* that sets the retry counter to zero
C38_EmptyListFullSuccess ==
    [](EmptyListIsSuccess
       /\ (NoPodsListed /\ ret.err = NoErr =>
              CallsOf("ApplyUpdate") # {} /\ CallsOf("ValidateUpdate") # {}))
        /\ [][EmptyListResetsCounter]_vars

\* after a failed cycle, a cycle has applied and validated the update and its
\* restart stage has found no pod and has returned nil: the counter, still above
\* zero, is reset by the step that follows
C38_Witness ==
    /\ NoPodsListed
    /\ ret.err = NoErr
    /\ retryCount > 0
    /\ CallsOf("ApplyUpdate") # {} /\ CallsOf("ValidateUpdate") # {}
    /\ EventsOf("restartWorkload") = {}

\* C39: once the context is cancelled, Run returns the error of the context in
\* the end, the cycle in flight having finished
C39_RunReturnsAfterCancel ==
    cancelled ~> (pc = "stopped" /\ ret.err = <<"context canceled">>)

====
